---- MODULE Spec2Model ----
(***************************************************************************)
(* Device fleet and reservation engine of the Android lab backend.         *)
(*                                                                         *)
(* The store is the relational database behind src/backend: the tables     *)
(* target_devices, reservations, reservation_policies and the two policy   *)
(* association tables.  Every request handler is one action over the       *)
(* committed store (a handler commits once, at its end); the concurrent    *)
(* specifications split a handler at its awaits.  Times are minutes.       *)
(***************************************************************************)
EXTENDS Integers, Sequences, FiniteSets, TLC

VARIABLES
    targets,          \* target_devices: id -> row (ids are 1..Len(targets))
    reservations,     \* reservations: set of rows, each with its id
    nextResId,        \* the reservations id sequence
    policies,         \* reservation_policies: set of rows, each with its id
    user_policies,    \* association table user_policies: set of <<user, policy>>
    target_policies,  \* association table target_policies: set of <<target, policy>>
    now,              \* datetime.utcnow(), in minutes
    response,         \* the body returned by the last check_availability or
                      \* process_heartbeat call (NoResponse after any other handler)
    req,              \* the in-flight create_reservation requests (concurrent runs)
    gateways,         \* gateways: set of rows, keyed by gateway_id
    associations,     \* target_gateway_associations: set of rows, each with its id
    nextAssocId,      \* the target_gateway_associations id sequence
    association_status, \* target id -> the association_status the gateway
                        \* handlers keep on the device (absent: never set)
    association_health, \* target id -> the association_health score kept
                        \* on the device (absent: never set)
    registered_devices, \* session_manager.registered_devices: the device ids
    device_health,      \* session_manager.device_health: device id -> status
    active_sessions,    \* session_manager.active_sessions: set of sessions
    nextSessionId,      \* stands for the fresh uuid of a session id
    active_tunnels,     \* SSHTunnelManager.active_tunnels: device -> process
    processes,          \* the ssh processes created so far: id -> row
    monitors,           \* the _monitor_tunnel_process task of each process
    health_task         \* the _health_check_task

gateway_vars == <<gateways, associations, nextAssocId, association_status,
                  association_health>>

session_vars == <<registered_devices, device_health, active_sessions,
                  nextSessionId>>

tunnel_vars == <<active_tunnels, processes, monitors, health_task>>

vars == <<targets, reservations, nextResId, policies, user_policies,
          target_policies, now, response, req, gateway_vars,
          session_vars, tunnel_vars>>

\* No gateway registered and no association recorded.
EmptyGatewayStore ==
    /\ gateways = {}
    /\ associations = {}
    /\ nextAssocId = 1
    /\ association_status = <<>>
    /\ association_health = <<>>

\* No remote-access agent registered and no session started.
EmptySessionStore ==
    /\ registered_devices = {}
    /\ device_health = <<>>
    /\ active_sessions = {}
    /\ nextSessionId = 1

\* The health-check task between two passes (asyncio.sleep).
IdleHealthTask == [pc |-> "sleeping", snapshot |-> <<>>, i |-> 0]

\* A tunnel manager that has started no tunnel.
EmptyTunnelStore ==
    /\ active_tunnels = <<>>
    /\ processes = <<>>
    /\ monitors = <<>>
    /\ health_task = IdleHealthTask

----------------------------------------------------------------------------
(* Bounds of the model *)

\* Rows the reservations id sequence may hand out.
MaxReservations == 2
\* The clock runs over 0, Step, ..., MaxTick * Step.
MaxTick == 2
Step == 10

----------------------------------------------------------------------------
(* Columns and enumerations *)

\* A NULL timestamp (last_accessed_at, last_heartbeat).
NoTime == 0 - 1
\* A NULL reservations.policy_id.
NoPolicy == 0
\* A NULL target_devices.serial_number / reservations.override_reason.
NoString == "NULL"

ReservationStatus == {"pending", "active", "completed", "cancelled", "expired"}
DeviceStatus == {"available", "reserved", "offline", "maintenance", "unhealthy"}

\* users: init_db.py creates the admin; the others register as developers.
AdminUser == 1
DeveloperUser == 2
UserIds == {AdminUser, DeveloperUser}
role(u) == IF u = AdminUser THEN "admin" ELSE "developer"

check_admin_role(u) == role(u) = "admin"
check_developer_role(u) == role(u) = "developer" \/ role(u) = "admin"

\* timedelta(days=1)
DayMinutes == 1440
\* check_availability's limits when no policy applies
DefaultMaxDurationMinutes == 240
DefaultMaxReservationsPerDay == 3
DefaultCooldownMinutes == 60
\* expire_stale_reservations_task's lease when the reservation has no policy
DefaultAutoExpireMinutes == 15

Clock == {k * Step : k \in 0..MaxTick}
Windows == {w \in Clock \X Clock : w[1] < w[2]}

\* What a PUT /reservations/{id} may send, as <<start_time, end_time, status>>:
\* a new time window (one end or both), a new status, or a window and a status.
UpdateRequests ==
    LET windows == Windows \cup {<<NoTime, e>> : e \in Clock}
                           \cup {<<s, NoTime>> : s \in Clock}
    IN  {<<w[1], w[2], "none">> : w \in windows}
            \cup {<<NoTime, NoTime, st>> : st \in ReservationStatus}
            \cup {<<w[1], w[2], st>> : w \in Windows, st \in ReservationStatus}

PolicyRow(id, prio, duration, per_day, cooldown, expire, expire_minutes) ==
    [id |-> id, priority_level |-> prio, max_duration_minutes |-> duration,
     max_reservations_per_day |-> per_day, cooldown_minutes |-> cooldown,
     auto_expire_enabled |-> expire, auto_expire_minutes |-> expire_minutes]

TargetRow(name, gw, serial, st, adb, ser, act, hb) ==
    [name |-> name, gateway_id |-> gw, serial_number |-> serial, status |-> st,
     adb_status |-> adb, serial_status |-> ser, is_active |-> act,
     last_heartbeat |-> hb]

Row(id) == CHOOSE r \in reservations : r.id = id
ResIds == {r.id : r \in reservations}

SetTargetStatus(tt, t, st) == [tt EXCEPT ![t].status = st]

----------------------------------------------------------------------------
(* reservations.py *)

\* A slip in the filter's boundary comparisons: a row that ends exactly where
\* the request starts is flagged.
CreateOverlapQueryClosed(rows, target_id, start_time, end_time) ==
    {r \in rows :
        /\ r.target_id = target_id
        /\ r.status \in {"pending", "active"}
        /\ \/ (r.start_time <= start_time /\ r.end_time >= start_time)
           \/ (r.start_time < end_time /\ r.end_time >= end_time)
           \/ (r.start_time >= start_time /\ r.end_time <= end_time)}

\* The overlap filter of create_reservation.
CreateOverlapQuery(rows, target_id, start_time, end_time) ==
    {r \in rows :
        /\ r.target_id = target_id
        /\ r.status \in {"pending", "active"}
        /\ \/ (r.start_time <= start_time /\ r.end_time > start_time)
           \/ (r.start_time < end_time /\ r.end_time >= end_time)
           \/ (r.start_time >= start_time /\ r.end_time <= end_time)}

\* The overlap filter of update_reservation: the updated row itself is left out.
UpdateOverlapQuery(rows, target_id, reservation_id, start_time, end_time) ==
    {r \in rows :
        /\ r.target_id = target_id
        /\ r.id # reservation_id
        /\ r.status \in {"pending", "active"}
        /\ \/ (r.start_time <= start_time /\ r.end_time > start_time)
           \/ (r.start_time < end_time /\ r.end_time >= end_time)
           \/ (r.start_time >= start_time /\ r.end_time <= end_time)}

\* The overlap filter of check_availability.
AvailabilityOverlapQuery(rows, target_id, start_time, end_time) ==
    {r \in rows :
        /\ r.target_id = target_id
        /\ r.status \in {"pending", "active"}
        /\ \/ (r.start_time <= start_time /\ r.end_time > start_time)
           \/ (r.start_time < end_time /\ r.end_time >= end_time)
           \/ (r.start_time >= start_time /\ r.end_time <= end_time)}

\* The test with the end of the window counted in: a window that ends now
\* still starts now.
StartsNowClosed(start_time, end_time, t) == start_time <= t /\ end_time >= t

\* "If reservation starts now, mark it as active".
StartsNow(start_time, end_time, t) == start_time <= t /\ end_time > t

NewReservation(id, u, t, s, e, st, prio, ovr, reason) ==
    [id |-> id, user_id |-> u, target_id |-> t, start_time |-> s, end_time |-> e,
     status |-> st, priority |-> prio, is_admin_override |-> ovr,
     override_reason |-> reason, policy_id |-> NoPolicy,
     last_accessed_at |-> NoTime]

NoResponse == [op |-> "none"]

\* The insert-and-commit tail of create_reservation (lines 222-239).
InsertReservation(u, t, s, e) ==
    LET st == IF StartsNow(s, e, now) THEN "active" ELSE "pending" IN
    /\ reservations' = reservations \cup
           {NewReservation(nextResId, u, t, s, e, st, "normal", FALSE, NoString)}
    /\ nextResId' = nextResId + 1
    /\ targets' = IF st = "active" THEN SetTargetStatus(targets, t, "reserved")
                  ELSE targets

\* POST /reservations/
CreateReservation(u, t, s, e) ==
    /\ check_developer_role(u)
    /\ s < e
    /\ nextResId <= MaxReservations
    /\ IF t \notin DOMAIN targets
       THEN /\ response' = NoResponse
            /\ UNCHANGED <<targets, reservations, nextResId>>
       ELSE IF CreateOverlapQuery(reservations, t, s, e) # {}
       THEN /\ response' = NoResponse
            /\ UNCHANGED <<targets, reservations, nextResId>>
       ELSE /\ InsertReservation(u, t, s, e)
            /\ response' = NoResponse
    /\ UNCHANGED <<policies, user_policies, target_policies, now, req, gateway_vars,
                   session_vars, tunnel_vars>>

\* An override create that runs the overlap query of the ordinary create.
CreateOverrideReservationChecked(u, t, s, e, reason) ==
    /\ check_admin_role(u)
    /\ s < e
    /\ nextResId <= MaxReservations
    /\ IF t \notin DOMAIN targets \/ CreateOverlapQuery(reservations, t, s, e) # {}
       THEN /\ response' = NoResponse
            /\ UNCHANGED <<targets, reservations, nextResId>>
       ELSE LET st == IF StartsNow(s, e, now) THEN "active" ELSE "pending" IN
            /\ reservations' = reservations \cup
                   {NewReservation(nextResId, u, t, s, e, st, "critical", TRUE, reason)}
            /\ nextResId' = nextResId + 1
            /\ targets' = IF st = "active"
                          THEN SetTargetStatus(targets, t, "reserved")
                          ELSE targets
            /\ response' = NoResponse
    /\ UNCHANGED <<policies, user_policies, target_policies, now, req, gateway_vars,
                   session_vars, tunnel_vars>>

\* POST /reservations/override
CreateOverrideReservation(u, t, s, e, reason) ==
    /\ check_admin_role(u)
    /\ s < e
    /\ nextResId <= MaxReservations
    /\ IF t \notin DOMAIN targets
       THEN /\ response' = NoResponse
            /\ UNCHANGED <<targets, reservations, nextResId>>
       ELSE LET st == IF StartsNow(s, e, now) THEN "active" ELSE "pending" IN
            /\ reservations' = reservations \cup
                   {NewReservation(nextResId, u, t, s, e, st, "critical", TRUE, reason)}
            /\ nextResId' = nextResId + 1
            /\ targets' = IF st = "active"
                          THEN SetTargetStatus(targets, t, "reserved")
                          ELSE targets
            /\ response' = NoResponse
    /\ UNCHANGED <<policies, user_policies, target_policies, now, req, gateway_vars,
                   session_vars, tunnel_vars>>

\* The rows update_reservation / delete_reservation may see: admins any row,
\* other users their own.
VisibleTo(u) == {r \in reservations : role(u) = "admin" \/ r.user_id = u}

\* A status update that forgets to release the device.
TargetAfterStatusUpdateNoRelease(tt, t, old_status, new_status) ==
    IF old_status # "active" /\ new_status = "active"
    THEN SetTargetStatus(tt, t, "reserved") ELSE tt

\* The target status after a status update of a reservation (lines 314-330).
TargetAfterStatusUpdate(tt, t, old_status, new_status) ==
    LET afterActivate ==
            IF old_status # "active" /\ new_status = "active"
            THEN SetTargetStatus(tt, t, "reserved") ELSE tt
    IN  IF old_status = "active" /\ new_status # "active"
        THEN SetTargetStatus(afterActivate, t, "available") ELSE afterActivate

\* PUT /reservations/{reservation_id}; a field that is not sent is NoTime / "none".
UpdateReservation(u, id, new_start, new_end, new_status) ==
    /\ u \in UserIds
    \* ReservationUpdate's validator: both sent and end <= start is a 422
    /\ ~(new_start # NoTime /\ new_end # NoTime /\ new_end <= new_start)
    /\ IF id \notin {r.id : r \in VisibleTo(u)}
       THEN /\ response' = NoResponse
            /\ UNCHANGED <<targets, reservations>>
       ELSE LET r == Row(id)
                start_time == IF new_start # NoTime THEN new_start ELSE r.start_time
                end_time == IF new_end # NoTime THEN new_end ELSE r.end_time
                status == IF new_status # "none" THEN new_status ELSE r.status
                checked == new_start # NoTime \/ new_end # NoTime
            IN  IF checked /\ UpdateOverlapQuery(reservations, r.target_id, id,
                                                 start_time, end_time) # {}
                THEN /\ response' = NoResponse
                     /\ UNCHANGED <<targets, reservations>>
                ELSE IF ~(end_time > start_time)
                \* the table's CHECK (end_time > start_time) fails the commit
                THEN /\ response' = NoResponse
                     /\ UNCHANGED <<targets, reservations>>
                ELSE /\ reservations' = (reservations \ {r}) \cup
                            {[r EXCEPT !.start_time = start_time,
                                       !.end_time = end_time,
                                       !.status = status]}
                     /\ targets' = IF new_status # "none"
                                   THEN TargetAfterStatusUpdate(targets, r.target_id,
                                                                r.status, status)
                                   ELSE targets
                     /\ response' = NoResponse
    /\ UNCHANGED <<nextResId, policies, user_policies, target_policies, now, req, gateway_vars,
                   session_vars, tunnel_vars>>

\* The target status after a reservation row is deleted (lines 363-368).
TargetAfterDelete(tt, r) ==
    IF r.status = "active" THEN SetTargetStatus(tt, r.target_id, "available") ELSE tt

\* DELETE /reservations/{reservation_id}
DeleteReservation(u, id) ==
    /\ u \in UserIds
    /\ IF id \notin {r.id : r \in VisibleTo(u)}
       THEN /\ response' = NoResponse
            /\ UNCHANGED <<targets, reservations>>
       ELSE /\ targets' = TargetAfterDelete(targets, Row(id))
            /\ reservations' = reservations \ {Row(id)}
            /\ response' = NoResponse
    /\ UNCHANGED <<nextResId, policies, user_policies, target_policies, now, req, gateway_vars,
                   session_vars, tunnel_vars>>

\* The outer join of the sweep: the reservation's policy row, if any.
PolicyOf(r) == {p \in policies : p.id = r.policy_id}

auto_expire_enabled(r) ==
    IF PolicyOf(r) # {} THEN (CHOOSE p \in PolicyOf(r) : TRUE).auto_expire_enabled
    ELSE TRUE

auto_expire_minutes(r) ==
    IF PolicyOf(r) # {} THEN (CHOOSE p \in PolicyOf(r) : TRUE).auto_expire_minutes
    ELSE DefaultAutoExpireMinutes

\* A sweep that expires a lease at its last minute instead of after it.
StaleReservationsEarly(rows, t) ==
    {r \in rows :
        /\ r.status = "active"
        /\ r.target_id \in DOMAIN targets
        /\ ~r.is_admin_override
        /\ auto_expire_enabled(r)
        /\ r.last_accessed_at # NoTime
        /\ t >= r.last_accessed_at + auto_expire_minutes(r)}

\* The reservations one run of expire_stale_reservations_task expires at time t.
StaleReservations(rows, t) ==
    {r \in rows :
        /\ r.status = "active"
        /\ r.target_id \in DOMAIN targets
        /\ ~r.is_admin_override
        /\ auto_expire_enabled(r)
        /\ r.last_accessed_at # NoTime
        /\ t > r.last_accessed_at + auto_expire_minutes(r)}

\* expire_stale_reservations_task: the background sweep, one commit.
ExpireStaleReservationsTask ==
    LET stale == StaleReservations(reservations, now) IN
    /\ reservations' = (reservations \ stale) \cup
                       {[r EXCEPT !.status = "expired"] : r \in stale}
    /\ targets' = [t \in DOMAIN targets |->
                     IF t \in {r.target_id : r \in stale}
                     THEN [targets[t] EXCEPT !.status = "available"]
                     ELSE targets[t]]
    /\ response' = NoResponse
    /\ UNCHANGED <<nextResId, policies, user_policies, target_policies, now, req, gateway_vars,
                   session_vars, tunnel_vars>>

\* The lease renewal of an active reservation: last_accessed_at := now.
TouchReservation(id) ==
    /\ id \in ResIds
    /\ Row(id).status = "active"
    /\ reservations' = (reservations \ {Row(id)}) \cup
                       {[Row(id) EXCEPT !.last_accessed_at = now]}
    /\ response' = NoResponse
    /\ UNCHANGED <<targets, nextResId, policies, user_policies, target_policies,
                   now, req, gateway_vars,
                   session_vars, tunnel_vars>>

----------------------------------------------------------------------------
(* targets.py: the manual status operations *)

\* PUT /targets/{target_id} with a status field (admin).
UpdateTarget(u, t, st) ==
    /\ check_admin_role(u)
    /\ t \in DOMAIN targets
    /\ targets' = SetTargetStatus(targets, t, st)
    /\ response' = NoResponse
    /\ UNCHANGED <<reservations, nextResId, policies, user_policies,
                   target_policies, now, req, gateway_vars,
                   session_vars, tunnel_vars>>

\* Time passes.
Tick ==
    /\ now < MaxTick * Step
    /\ now' = now + Step
    /\ UNCHANGED <<targets, reservations, nextResId, policies, user_policies,
                   target_policies, response, req, gateway_vars,
                   session_vars, tunnel_vars>>

----------------------------------------------------------------------------
(* The reservation lifecycle over a registered fleet *)

NumTargets == 2

\* The fleet after the gateway's first heartbeat: every device available.
RegisteredFleet ==
    [t \in 1..NumTargets |->
        TargetRow(<<"dev", t>>, "gw1", NoString, "available", TRUE, FALSE, TRUE, 0)]

NoRequests == <<>>

\* Who calls update and delete on a row: its owner, and a developer who is not
\* (an admin acts on a developer's row exactly as its owner does).
Callers(r) == {r.user_id, DeveloperUser}

Init ==
    /\ targets = RegisteredFleet
    /\ reservations = {}
    /\ nextResId = 1
    /\ policies = {}
    /\ user_policies = {}
    /\ target_policies = {}
    /\ now = 0
    /\ response = NoResponse
    /\ req = NoRequests
    /\ EmptyGatewayStore
    /\ EmptySessionStore
    /\ EmptyTunnelStore

Next ==
    \/ \E w \in Windows, t \in 1..NumTargets :
           CreateReservation(DeveloperUser, t, w[1], w[2])
    \/ \E w \in Windows, t \in 1..NumTargets :
           CreateOverrideReservation(AdminUser, t, w[1], w[2], "urgent")
    \/ \E r \in reservations : \E u \in Callers(r), q \in UpdateRequests :
           UpdateReservation(u, r.id, q[1], q[2], q[3])
    \/ \E r \in reservations : \E u \in Callers(r) : DeleteReservation(u, r.id)
    \/ ExpireStaleReservationsTask
    \/ \E t \in 1..NumTargets : UpdateTarget(AdminUser, t, "maintenance")
    \/ Tick

Spec == Init /\ [][Next]_vars

----------------------------------------------------------------------------
(* create_reservation under concurrent requests                            *)
(*                                                                         *)
(* Each request runs in its own AsyncSession (database.py get_db); the     *)
(* handler yields at every await, and a query sees what is committed when  *)
(* it runs.  The steps are the handler's three awaits: the target select,  *)
(* the overlap select, and the commit.                                     *)

Workers == {1, 2}

IdleRequest ==
    [pc |-> "idle", user_id |-> 0, target_id |-> 0, start_time |-> 0, end_time |-> 0]

\* A POST /reservations/ arrives at a worker.
Submit(p, u, t, s, e) ==
    /\ req[p].pc = "idle"
    /\ check_developer_role(u)
    /\ s < e
    /\ req' = [req EXCEPT ![p] = [pc |-> "started", user_id |-> u, target_id |-> t,
                                  start_time |-> s, end_time |-> e]]
    /\ UNCHANGED <<targets, reservations, nextResId, policies, user_policies,
                   target_policies, now, response, gateway_vars,
                   session_vars, tunnel_vars>>

\* await db.execute(select(TargetDevice)...) and the 404 (lines 180-188)
ReadTarget(p) ==
    /\ req[p].pc = "started"
    /\ req' = [req EXCEPT ![p].pc = IF req[p].target_id \in DOMAIN targets
                                    THEN "target_read" ELSE "not_found"]
    /\ UNCHANGED <<targets, reservations, nextResId, policies, user_policies,
                   target_policies, now, response, gateway_vars,
                   session_vars, tunnel_vars>>

\* await db.execute(query) over the committed rows and the 400 (lines 190-220)
CheckOverlap(p) ==
    /\ req[p].pc = "target_read"
    /\ req' = [req EXCEPT ![p].pc =
                  IF CreateOverlapQuery(reservations, req[p].target_id,
                                        req[p].start_time, req[p].end_time) # {}
                  THEN "rejected" ELSE "checked"]
    /\ UNCHANGED <<targets, reservations, nextResId, policies, user_policies,
                   target_policies, now, response, gateway_vars,
                   session_vars, tunnel_vars>>

\* db.add(new_reservation); await db.commit() (lines 222-241)
Commit(p) ==
    /\ req[p].pc = "checked"
    /\ InsertReservation(req[p].user_id, req[p].target_id,
                         req[p].start_time, req[p].end_time)
    /\ req' = [req EXCEPT ![p].pc = "accepted"]
    /\ UNCHANGED <<policies, user_policies, target_policies, now, response, gateway_vars,
                   session_vars, tunnel_vars>>

InitRace ==
    /\ targets = RegisteredFleet
    /\ reservations = {}
    /\ nextResId = 1
    /\ policies = {}
    /\ user_policies = {}
    /\ target_policies = {}
    /\ now = 0
    /\ response = NoResponse
    /\ req = [p \in Workers |-> IdleRequest]
    /\ EmptyGatewayStore
    /\ EmptySessionStore
    /\ EmptyTunnelStore

NextRace ==
    \/ \E p \in Workers, w \in Windows, t \in 1..NumTargets :
           Submit(p, DeveloperUser, t, w[1], w[2])
    \/ \E p \in Workers : ReadTarget(p)
    \/ \E p \in Workers : CheckOverlap(p)
    \/ \E p \in Workers : Commit(p)
    \/ Tick

SpecRace == InitRace /\ [][NextRace]_vars

Answered(p) == req[p].pc \in {"accepted", "rejected"}

\* One window contains the other.
FullyOverlapping(p, q) ==
    \/ req[p].start_time <= req[q].start_time /\ req[q].end_time <= req[p].end_time
    \/ req[q].start_time <= req[p].start_time /\ req[p].end_time <= req[q].end_time

\* C1: when two create requests for the same device with fully overlapping
\* windows have both been answered, exactly one was accepted and the other
\* rejected, and the device holds no two live rows with intersecting windows.
C1_ExactlyOneAccepted ==
    \A p \in Workers, q \in Workers :
        (/\ p # q
         /\ Answered(p) /\ Answered(q)
         /\ req[p].target_id = req[q].target_id
         /\ FullyOverlapping(p, q))
        => /\ req[p].pc # req[q].pc
           /\ \A r1 \in reservations, r2 \in reservations :
                  (/\ r1.id # r2.id
                   /\ r1.target_id = r2.target_id
                   /\ r1.status \in {"pending", "active"}
                   /\ r2.status \in {"pending", "active"})
                  => ~(r1.start_time < r2.end_time /\ r2.start_time < r1.end_time)

----------------------------------------------------------------------------
(* The lease: sweep, touch and release over any stored table                *)
(*                                                                         *)
(* The handlers never write reservations.policy_id or last_accessed_at;    *)
(* the columns are written out of band (the session layer's lease renewal, *)
(* an administrator).  The initial states are the tables the schema        *)
(* admits: up to two live rows on the fleet, each with any policy          *)
(* reference, override flag and last access.                               *)

\* Two policy rows as ReservationPolicyCreate stores them: one with a lease
\* of one clock step, one with auto-expiry switched off.
LeasePolicies ==
    {PolicyRow(1, 0, DefaultMaxDurationMinutes, DefaultMaxReservationsPerDay,
               DefaultCooldownMinutes, TRUE, Step),
     PolicyRow(2, 0, DefaultMaxDurationMinutes, DefaultMaxReservationsPerDay,
               DefaultCooldownMinutes, FALSE, DefaultAutoExpireMinutes)}

StoredRow(id, t, st, ovr, pol, accessed) ==
    [NewReservation(id, IF ovr THEN AdminUser ELSE DeveloperUser, t, 0,
                    MaxTick * Step + Step, st,
                    IF ovr THEN "critical" ELSE "normal", ovr,
                    IF ovr THEN "urgent" ELSE NoString)
        EXCEPT !.policy_id = pol, !.last_accessed_at = accessed]

StoredRows(id, ts) ==
    {StoredRow(id, t, st, ovr, pol, accessed) :
        t \in ts, st \in {"pending", "active"}, ovr \in BOOLEAN,
        pol \in {NoPolicy} \cup {p.id : p \in LeasePolicies},
        accessed \in {NoTime, 0}}

InitLease ==
    /\ \E st \in {"reserved", "maintenance"} :
           targets = SetTargetStatus(SetTargetStatus(RegisteredFleet, 1, st),
                                     NumTargets, "reserved")
    /\ \E r1 \in StoredRows(1, {1}) :
           \/ reservations = {r1} /\ nextResId = 2
           \/ \E r2 \in StoredRows(2, 1..NumTargets) :
                  reservations = {r1, r2} /\ nextResId = 3
    /\ policies = LeasePolicies
    /\ user_policies = {}
    /\ target_policies = {}
    /\ now = 0
    /\ response = NoResponse
    /\ req = NoRequests
    /\ EmptyGatewayStore
    /\ EmptySessionStore
    /\ EmptyTunnelStore

NextLease ==
    \/ ExpireStaleReservationsTask
    \/ \E r \in reservations : TouchReservation(r.id)
    \/ \E r \in reservations : \E st \in {"completed", "cancelled"} :
           UpdateReservation(r.user_id, r.id, NoTime, NoTime, st)
    \/ \E r \in reservations : DeleteReservation(r.user_id, r.id)
    \/ \E t \in 1..NumTargets : UpdateTarget(AdminUser, t, "maintenance")
    \/ Tick

SpecLease == InitLease /\ [][NextLease]_vars

\* The lease of a reservation as the policy model states it.
LeaseEnabled(r) ==
    IF r.policy_id = NoPolicy THEN TRUE
    ELSE \E p \in policies : p.id = r.policy_id /\ p.auto_expire_enabled
LeaseMinutes(r) ==
    IF r.policy_id = NoPolicy THEN 15
    ELSE (CHOOSE p \in policies : p.id = r.policy_id).auto_expire_minutes
LeaseOver(r) ==
    /\ r.status = "active" /\ ~r.is_admin_override
    /\ LeaseEnabled(r)
    /\ r.last_accessed_at # NoTime
    /\ now > r.last_accessed_at + LeaseMinutes(r)

\* C3: in every step in which a reservation that was active stops being
\* active (status update, delete, sweep), its device is available afterwards,
\* unless the device was in maintenance.
C3_ReleaseOnLeavingActive ==
    [][\A r \in reservations :
          (/\ r.status = "active"
           /\ ~(\E n \in reservations' : n.id = r.id /\ n.status = "active")
           /\ targets[r.target_id].status # "maintenance")
          => targets'[r.target_id].status = "available"]_vars

\* C3's case: an expired row and a completed or cancelled row whose lease was
\* running, each on a device that is available.
C3_Witness ==
    /\ \E r \in reservations :
           r.status = "expired" /\ targets[r.target_id].status = "available"
    /\ \E r \in reservations :
           /\ r.status \in {"completed", "cancelled"}
           /\ r.last_accessed_at > 0
           /\ targets[r.target_id].status = "available"

\* C5: one run of the sweep expires exactly the active, non-override rows whose
\* lease is enabled and over (now > last_accessed_at + auto_expire_minutes) and
\* makes their devices available; every other row is left as it was, and a
\* device with no expired row keeps its status.
C5_SweepExpiresExactlyTheStale ==
    [][ExpireStaleReservationsTask =>
          /\ \A r \in reservations :
                 IF LeaseOver(r)
                 THEN /\ [r EXCEPT !.status = "expired"] \in reservations'
                      /\ targets'[r.target_id].status = "available"
                 ELSE r \in reservations'
          /\ Cardinality(reservations') = Cardinality(reservations)
          /\ \A t \in DOMAIN targets :
                 (\A r \in reservations : r.target_id = t => ~LeaseOver(r))
                 => targets'[t] = targets[t]]_vars

\* C5's case: after a sweep one row is expired with its device available, while
\* a row touched within its lease, or an override, or a row whose policy
\* switches auto-expiry off, is still active although it was accessed long ago.
C5_Witness ==
    /\ \E r \in reservations :
           r.status = "expired" /\ targets[r.target_id].status = "available"
    /\ \E r \in reservations :
           /\ r.status = "active" /\ r.last_accessed_at # NoTime
           /\ ~LeaseOver(r)
           /\ now > r.last_accessed_at + DefaultAutoExpireMinutes
    /\ ~(\E r \in reservations : LeaseOver(r))

----------------------------------------------------------------------------
(* The expiry sweep under fair scheduling.  Reservations are created through
   POST /reservations/ and then left alone; the clock advances and the sweep
   of POST /reservations/expire-stale is run again and again. *)

NextLive ==
    \/ \E w \in Windows, t \in 1..NumTargets :
           CreateReservation(DeveloperUser, t, w[1], w[2])
    \/ ExpireStaleReservationsTask
    \/ Tick

SpecLive ==
    /\ Init
    /\ [][NextLive]_vars
    /\ WF_vars(Tick)
    /\ WF_vars(ExpireStaleReservationsTask)

\* Reservation id is active, not an override, and its lease can expire.
Abandoned(id) ==
    \E r \in reservations :
        /\ r.id = id
        /\ r.status = "active"
        /\ ~r.is_admin_override
        /\ auto_expire_enabled(r)

\* Reservation id has been expired and its device is no longer reserved.
Reclaimed(id) ==
    \E r \in reservations :
        /\ r.id = id
        /\ r.status = "expired"
        /\ targets[r.target_id].status # "reserved"

\* C6: under a fairly scheduled sweep (and a clock that advances), an active
\* non-override reservation with auto-expire enabled that became active at
\* time 0 and is never touched afterwards is eventually expired and its device
\* leaves the reserved status.  The clock runs to MaxTick * Step, which is
\* later than 0 + DefaultAutoExpireMinutes, so a lease counted from the
\* activation would run out within the horizon.
C6_AbandonedEventuallyExpired ==
    \A id \in 1..MaxReservations :
        (Abandoned(id) /\ now = 0) ~> Reclaimed(id)

----------------------------------------------------------------------------
(* targets.py: POST /targets/heartbeat and the fleet it maintains *)

MaxDevices == 2
MaxBatch == 2

Gateways == {"gw1", "gw2"}
DeviceNames == {"a", "b"}
SerialNumbers == {NoString, "SN1"}

\* HeartbeatDeviceInfo: name, gateway_id, serial_number (optional) and the two
\* reachability flags.  A gateway agent reports its own id in every entry.
HeartbeatDeviceInfo(g) ==
    [name : DeviceNames, gateway_id : {g}, serial_number : SerialNumbers,
     adb_status : {TRUE}, serial_status : {TRUE}]

\* HeartbeatRequest.devices: a list of at most MaxBatch entries.
HeartbeatDevices(g) ==
    UNION {[1..n -> HeartbeatDeviceInfo(g)] : n \in 0..MaxBatch}

\* The filter of the lookup: serial_number == entry.serial_number (IS NULL for
\* an entry without serial) OR (gateway_id, name) == the entry's.
MatchingDevices(tt, e) ==
    {d \in DOMAIN tt :
        \/ tt[d].serial_number = e.serial_number
        \/ tt[d].gateway_id = e.gateway_id /\ tt[d].name = e.name}

\* The unique constraint on target_devices.serial_number (NULLs are exempt).
SerialUnique(tt) ==
    \A d1, d2 \in DOMAIN tt :
        (d1 # d2 /\ tt[d1].serial_number # NoString)
            => tt[d1].serial_number # tt[d2].serial_number

StatusChange(d, name, old, new) ==
    [id |-> d, name |-> name, original_status |-> old, new_status |-> new]

\* The status guard with the maintenance test left out: a device found by the
\* lookup is made available unless it is reserved.
UpdateFoundOverMaintenance(h, d, e) ==
    LET old == h.targets[d]
        st  == IF old.status # "reserved" THEN "available" ELSE old.status
        row == TargetRow(e.name, e.gateway_id, e.serial_number, st,
                         e.adb_status, e.serial_status, old.is_active, now)
    IN [h EXCEPT
          !.targets = [h.targets EXCEPT ![d] = row],
          !.status_changed_targets =
              IF old.status # st
              THEN @ \cup {StatusChange(d, e.name, old.status, st)} ELSE @]

\* The refresh with the heartbeat stamp left out: the row keeps the
\* last_heartbeat it had.
UpdateFoundUnstamped(h, d, e) ==
    LET old == h.targets[d]
        st  == IF old.status \notin {"reserved", "maintenance"}
               THEN "available" ELSE old.status
        row == TargetRow(e.name, e.gateway_id, e.serial_number, st,
                         e.adb_status, e.serial_status, old.is_active,
                         old.last_heartbeat)
    IN [h EXCEPT
          !.targets = [h.targets EXCEPT ![d] = row],
          !.status_changed_targets =
              IF old.status # st
              THEN @ \cup {StatusChange(d, e.name, old.status, st)} ELSE @]

\* The branch for a device that was found.
UpdateFound(h, d, e) ==
    LET old == h.targets[d]
        st  == IF old.status \notin {"reserved", "maintenance"}
               THEN "available" ELSE old.status
        row == TargetRow(e.name, e.gateway_id, e.serial_number, st,
                         e.adb_status, e.serial_status, old.is_active, now)
    IN [h EXCEPT
          !.targets = [h.targets EXCEPT ![d] = row],
          !.status_changed_targets =
              IF old.status # st
              THEN @ \cup {StatusChange(d, e.name, old.status, st)} ELSE @]

\* The branch for a device that was not found: auto-registration.
CreateNew(h, e) ==
    LET d == Len(h.targets) + 1 IN
    [h EXCEPT
       !.targets = Append(h.targets,
           TargetRow(e.name, e.gateway_id, e.serial_number, "available",
                     e.adb_status, e.serial_status, TRUE, now)),
       !.new_targets = @ \cup {d}]

\* One iteration of the loop over heartbeat_data.devices.  The lookup takes
\* .first() of an unordered select, so any matching row may be the one taken.
\* The next statement flushes the session: a duplicate serial raises there.
ProcessEntry(h, e) ==
    LET found == MatchingDevices(h.targets, e)
        after == IF found = {} THEN {CreateNew(h, e)}
                 ELSE {UpdateFound(h, d, e) : d \in found}
    IN IF h.failed THEN {h}
       ELSE {IF SerialUnique(a.targets) THEN a ELSE [h EXCEPT !.failed = TRUE] :
                a \in after}

RECURSIVE ProcessEntries(_, _)
ProcessEntries(h, devices) ==
    IF devices = <<>> THEN {h}
    ELSE UNION {ProcessEntries(h2, Tail(devices)) :
                    h2 \in ProcessEntry(h, Head(devices))}

\* The second pass with the offline transition left out of the flags.
MarkMissingOfflineKeepingFlags(h, g, devices) ==
    LET names   == {devices[i].name : i \in DOMAIN devices}
        missing == {d \in DOMAIN h.targets :
                       /\ h.targets[d].gateway_id = g
                       /\ h.targets[d].name \notin names
                       /\ h.targets[d].is_active}
        down    == {d \in missing :
                       h.targets[d].status \notin {"reserved", "maintenance"}}
    IN [h EXCEPT
          !.targets = [d \in DOMAIN h.targets |->
              IF d \in down
              THEN [h.targets[d] EXCEPT !.status = "offline"]
              ELSE h.targets[d]],
          !.status_changed_targets = @ \cup
              {StatusChange(d, h.targets[d].name, h.targets[d].status, "offline") :
                  d \in {x \in down : h.targets[x].status # "offline"}}]

\* The second pass: the gateway's active devices whose name was not reported.
MarkMissingOffline(h, g, devices) ==
    LET names   == {devices[i].name : i \in DOMAIN devices}
        missing == {d \in DOMAIN h.targets :
                       /\ h.targets[d].gateway_id = g
                       /\ h.targets[d].name \notin names
                       /\ h.targets[d].is_active}
        down    == {d \in missing :
                       h.targets[d].status \notin {"reserved", "maintenance"}}
    IN [h EXCEPT
          !.targets = [d \in DOMAIN h.targets |->
              IF d \in down
              THEN [h.targets[d] EXCEPT !.status = "offline",
                                        !.adb_status = FALSE,
                                        !.serial_status = FALSE]
              ELSE h.targets[d]],
          !.status_changed_targets = @ \cup
              {StatusChange(d, h.targets[d].name, h.targets[d].status, "offline") :
                  d \in {x \in down : h.targets[x].status # "offline"}}]

\* What one call can leave behind: the table and the two audit lists.
HeartbeatOutcomes(tt, g, devices) ==
    LET start == [targets |-> tt, new_targets |-> {},
                  status_changed_targets |-> {}, failed |-> FALSE]
    IN {IF h.failed THEN h ELSE MarkMissingOffline(h, g, devices) :
            h \in ProcessEntries(start, devices)}

\* POST /targets/heartbeat (open to gateway agents).  A failed flush rolls the
\* whole batch back.
ProcessHeartbeat(g, devices) ==
    \E h \in HeartbeatOutcomes(targets, g, devices) :
        /\ Len(h.targets) <= MaxDevices
        /\ IF h.failed
           THEN /\ targets' = targets
                /\ response' = [op |-> "heartbeat", status_code |-> 500,
                                gateway_id |-> g, devices |-> devices,
                                new_targets |-> {},
                                status_changed_targets |-> {}]
           ELSE /\ targets' = h.targets
                /\ response' = [op |-> "heartbeat", status_code |-> 200,
                                gateway_id |-> g, devices |-> devices,
                                new_targets |-> h.new_targets,
                                status_changed_targets |->
                                    h.status_changed_targets]
        /\ UNCHANGED <<reservations, nextResId, policies, user_policies,
                       target_policies, now, req, gateway_vars,
                       session_vars, tunnel_vars>>

\* POST /targets/ (admin): a device registered by hand starts offline.
RegisterTarget(u, name, g, serial) ==
    /\ check_admin_role(u)
    /\ Len(targets) < MaxDevices
    /\ IF serial # NoString /\ \E d \in DOMAIN targets :
                                  targets[d].serial_number = serial
       THEN targets' = targets
       ELSE targets' = Append(targets,
                TargetRow(name, g, serial, "offline", FALSE, FALSE, TRUE, NoTime))
    /\ response' = NoResponse
    /\ UNCHANGED <<reservations, nextResId, policies, user_policies,
                   target_policies, now, req, gateway_vars,
                   session_vars, tunnel_vars>>

\* POST /targets/{target_id}/reserve
ReserveTarget(u, t) ==
    /\ check_developer_role(u)
    /\ t \in DOMAIN targets
    /\ targets[t].status = "available"
    /\ targets' = SetTargetStatus(targets, t, "reserved")
    /\ response' = NoResponse
    /\ UNCHANGED <<reservations, nextResId, policies, user_policies,
                   target_policies, now, req, gateway_vars,
                   session_vars, tunnel_vars>>

\* POST /targets/{target_id}/release
ReleaseTarget(u, t) ==
    /\ check_developer_role(u)
    /\ t \in DOMAIN targets
    /\ targets[t].status = "reserved"
    /\ targets' = SetTargetStatus(targets, t, "available")
    /\ response' = NoResponse
    /\ UNCHANGED <<reservations, nextResId, policies, user_policies,
                   target_policies, now, req, gateway_vars,
                   session_vars, tunnel_vars>>

\* POST /targets/{target_id}/deactivate
DeactivateTarget(u, t) ==
    /\ check_admin_role(u)
    /\ t \in DOMAIN targets
    /\ targets' = [targets EXCEPT ![t].is_active = FALSE,
                                  ![t].status = "maintenance"]
    /\ response' = NoResponse
    /\ UNCHANGED <<reservations, nextResId, policies, user_policies,
                   target_policies, now, req, gateway_vars,
                   session_vars, tunnel_vars>>

InitHeartbeat ==
    /\ targets = <<>>
    /\ reservations = {}
    /\ nextResId = 1
    /\ policies = {}
    /\ user_policies = {}
    /\ target_policies = {}
    /\ now = 0
    /\ response = NoResponse
    /\ req = NoRequests
    /\ EmptyGatewayStore
    /\ EmptySessionStore
    /\ EmptyTunnelStore

NextHeartbeat ==
    \/ \E g \in Gateways : \E devices \in HeartbeatDevices(g) :
           ProcessHeartbeat(g, devices)
    \/ \E g \in Gateways, name \in DeviceNames, serial \in SerialNumbers :
           RegisterTarget(AdminUser, name, g, serial)
    \/ \E t \in DOMAIN targets : ReserveTarget(DeveloperUser, t)
    \/ \E t \in DOMAIN targets : ReleaseTarget(DeveloperUser, t)
    \/ \E t \in DOMAIN targets : DeactivateTarget(AdminUser, t)
    \/ \E t \in DOMAIN targets : UpdateTarget(AdminUser, t, "maintenance")

SpecHeartbeat == InitHeartbeat /\ [][NextHeartbeat]_vars

\* The names reported in the batch the last reply answers.
ReportedNames(resp) == {resp.devices[i].name : i \in DOMAIN resp.devices}

\* The devices of the reply's gateway that are active and were not reported.
AbsentDevices(tt, resp) ==
    {d \in DOMAIN tt :
        /\ tt[d].gateway_id = resp.gateway_id
        /\ tt[d].is_active
        /\ tt[d].name \notin ReportedNames(resp)}

\* C7: after a heartbeat batch for gateway G is applied, every active device
\* of G whose name is absent from the batch is offline with adb_status and
\* serial_status cleared if its status was neither reserved nor maintenance,
\* and keeps its status if it was reserved or in maintenance.
C7_AbsentDevicesGoOffline ==
    [][(response'.op = "heartbeat" /\ response'.status_code = 200) =>
          \A d \in AbsentDevices(targets', response') :
              /\ d \in DOMAIN targets
              /\ IF targets[d].status \in {"reserved", "maintenance"}
                 THEN targets'[d].status = targets[d].status
                 ELSE /\ targets'[d].status = "offline"
                      /\ ~targets'[d].adb_status
                      /\ ~targets'[d].serial_status]_vars

\* A batch has just taken one silent device offline and left a silent
\* reserved device of the same gateway reserved.
C7_Witness ==
    /\ response.op = "heartbeat"
    /\ response.status_code = 200
    /\ \E d1, d2 \in AbsentDevices(targets, response) :
          /\ targets[d1].status = "offline"
          /\ ~targets[d1].adb_status
          /\ \E c \in response.status_changed_targets :
                 c.id = d1 /\ c.original_status = "available"
          /\ targets[d2].status = "reserved"

\* C8: applying the same heartbeat batch twice in succession, nothing in
\* between, is idempotent: the second application leaves the same device
\* records with the same statuses, creates no device and emits no
\* status-change event.
C8_HeartbeatIdempotent ==
    [][(/\ response.op = "heartbeat"
        /\ response.status_code = 200
        /\ response'.op = "heartbeat"
        /\ response'.gateway_id = response.gateway_id
        /\ response'.devices = response.devices) =>
          /\ DOMAIN targets' = DOMAIN targets
          /\ \A d \in DOMAIN targets : targets'[d].status = targets[d].status
          /\ response'.new_targets = {}
          /\ response'.status_changed_targets = {}]_vars

----------------------------------------------------------------------------
(* reservations.py: GET /reservations/availability, the admission check *)

\* Three stored policies: A is the low-priority short one, B and C share the
\* highest priority level and differ in every limit.
AdmissionPolicies ==
    {PolicyRow(1, 1, 60, 1, 0, TRUE, DefaultAutoExpireMinutes),
     PolicyRow(2, 5, 480, 2, 120, TRUE, DefaultAutoExpireMinutes),
     PolicyRow(3, 5, 300, 1, 30, TRUE, DefaultAutoExpireMinutes)}

\* Requested windows, in minutes: half an hour at 0 and at 60, 400 minutes
\* from 100, and half an hour on the next day.
AdmissionWindows ==
    {<<0, 30>>, <<60, 90>>, <<100, 500>>, <<DayMinutes, DayMinutes + 30>>}

\* The windows asked about: those above, one hour at 0 and four hours from
\* 100 (the lengths of policy A's cap and of the default cap).
RequestWindows == AdmissionWindows \cup {<<0, 60>>, <<100, 340>>}

\* The policies reached through User.policies and TargetDevice.policies: the
\* reverse sides that ReservationPolicy.users and ReservationPolicy.targets
\* name with back_populates, over the two association tables.
UserPoliciesOf(u) == {p \in policies : <<u, p.id>> \in user_policies}
TargetPoliciesOf(t) == {p \in policies : <<t, p.id>> \in target_policies}

\* all_policies[0] after the descending sort with the lowest level in front.
FirstPolicyLowest(all_policies) ==
    {p \in all_policies :
        \A q \in all_policies : q.priority_level >= p.priority_level}

\* all_policies[0] after list(set(...)).sort(priority_level, reverse=True):
\* a policy of the highest level; among equals the set order decides.
FirstPolicy(all_policies) ==
    {p \in all_policies :
        \A q \in all_policies : q.priority_level <= p.priority_level}

Limits(d, n, c) ==
    [max_duration_minutes |-> d, max_reservations_per_day |-> n,
     cooldown_minutes |-> c]

\* The three limits the check may work with.
ResolvedLimits(u, t) ==
    LET all_policies == UserPoliciesOf(u) \cup TargetPoliciesOf(t) IN
    IF all_policies = {}
    THEN {Limits(DefaultMaxDurationMinutes, DefaultMaxReservationsPerDay,
                 DefaultCooldownMinutes)}
    ELSE {Limits(p.max_duration_minutes, p.max_reservations_per_day,
                 p.cooldown_minutes) : p \in FirstPolicy(all_policies)}

today_start(t) == (t \div DayMinutes) * DayMinutes

\* The count that takes cancelled reservations along.
daily_reservations_count_all(rows, u, t) ==
    Cardinality({r \in rows :
        /\ r.user_id = u
        /\ r.start_time >= today_start(t)
        /\ r.start_time < today_start(t) + DayMinutes})

\* The user's non-cancelled reservations that start in the current UTC day.
daily_reservations_count(rows, u, t) ==
    Cardinality({r \in rows :
        /\ r.user_id = u
        /\ r.start_time >= today_start(t)
        /\ r.start_time < today_start(t) + DayMinutes
        /\ r.status # "cancelled"})

\* The user's latest non-cancelled reservation that ended by start_time.
last_reservation(rows, u, start_time) ==
    LET ended == {r \in rows : /\ r.user_id = u
                               /\ r.end_time <= start_time
                               /\ r.status # "cancelled"}
    IN {r \in ended : \A q \in ended : q.end_time <= r.end_time}

\* The cooldown step refusing a start at the very end of the cooldown.
InCooldownClosed(rows, u, start_time, cooldown) ==
    \E r \in last_reservation(rows, u, start_time) :
        start_time <= r.end_time + cooldown

\* "if start_time < cooldown_end"
InCooldown(rows, u, start_time, cooldown) ==
    \E r \in last_reservation(rows, u, start_time) :
        start_time < r.end_time + cooldown

\* The duration step refusing a request of exactly the cap.
ExceedsDurationClosed(requested_duration, max_duration_minutes) ==
    requested_duration >= max_duration_minutes

\* "if requested_duration > max_duration_minutes"
ExceedsDuration(requested_duration, max_duration_minutes) ==
    requested_duration > max_duration_minutes

Verdict(u, t, s, e, available, reason, limit, conflicts) ==
    [op |-> "availability", user_id |-> u, target_id |-> t, start_time |-> s,
     end_time |-> e, available |-> available, reason |-> reason,
     limit |-> limit, conflicts |-> conflicts]

\* A check that holds what it grants: a positive answer marks the device
\* reserved.
CheckAvailabilityHolding(u, t, s, e) ==
    /\ t \in DOMAIN targets
    /\ LET conflicts == AvailabilityOverlapQuery(reservations, t, s, e) IN
       IF targets[t].status \notin {"available", "reserved"}
       THEN response' = Verdict(u, t, s, e, FALSE, "status", 0, {})
       ELSE IF conflicts # {}
       THEN response' = Verdict(u, t, s, e, FALSE, "conflicts",
                                0, {r.id : r \in conflicts})
       ELSE \E l \in ResolvedLimits(u, t) :
            IF ExceedsDuration(e - s, l.max_duration_minutes)
            THEN response' = Verdict(u, t, s, e, FALSE, "duration",
                                     l.max_duration_minutes, {})
            ELSE IF daily_reservations_count(reservations, u, now)
                        >= l.max_reservations_per_day
            THEN response' = Verdict(u, t, s, e, FALSE, "daily limit",
                                     l.max_reservations_per_day, {})
            ELSE IF InCooldown(reservations, u, s, l.cooldown_minutes)
            THEN response' = Verdict(u, t, s, e, FALSE, "cooldown",
                                     l.cooldown_minutes, {})
            ELSE response' = Verdict(u, t, s, e, TRUE, "available", 0, {})
    /\ targets' = IF response'.available
                  THEN SetTargetStatus(targets, t, "reserved") ELSE targets
    /\ UNCHANGED <<reservations, nextResId, policies, user_policies,
                   target_policies, now, req, gateway_vars,
                   session_vars, tunnel_vars>>

\* The first two steps in the other order: the overlap query runs before the
\* device status is looked at.
CheckAvailabilityOverlapFirst(u, t, s, e) ==
    /\ t \in DOMAIN targets
    /\ LET conflicts == AvailabilityOverlapQuery(reservations, t, s, e) IN
       IF conflicts # {}
       THEN response' = Verdict(u, t, s, e, FALSE, "conflicts",
                                0, {r.id : r \in conflicts})
       ELSE IF targets[t].status \notin {"available", "reserved"}
       THEN response' = Verdict(u, t, s, e, FALSE, "status", 0, {})
       ELSE \E l \in ResolvedLimits(u, t) :
            IF ExceedsDuration(e - s, l.max_duration_minutes)
            THEN response' = Verdict(u, t, s, e, FALSE, "duration",
                                     l.max_duration_minutes, {})
            ELSE IF daily_reservations_count(reservations, u, now)
                        >= l.max_reservations_per_day
            THEN response' = Verdict(u, t, s, e, FALSE, "daily limit",
                                     l.max_reservations_per_day, {})
            ELSE IF InCooldown(reservations, u, s, l.cooldown_minutes)
            THEN response' = Verdict(u, t, s, e, FALSE, "cooldown",
                                     l.cooldown_minutes, {})
            ELSE response' = Verdict(u, t, s, e, TRUE, "available", 0, {})
    /\ UNCHANGED <<targets, reservations, nextResId, policies, user_policies,
                   target_policies, now, req, gateway_vars,
                   session_vars, tunnel_vars>>

\* GET /reservations/availability: reads only; the reply names the step that
\* refused and the limit it quotes.
CheckAvailability(u, t, s, e) ==
    /\ t \in DOMAIN targets
    /\ LET conflicts == AvailabilityOverlapQuery(reservations, t, s, e) IN
       IF targets[t].status \notin {"available", "reserved"}
       THEN response' = Verdict(u, t, s, e, FALSE, "status", 0, {})
       ELSE IF conflicts # {}
       THEN response' = Verdict(u, t, s, e, FALSE, "conflicts",
                                0, {r.id : r \in conflicts})
       ELSE \E l \in ResolvedLimits(u, t) :
            IF ExceedsDuration(e - s, l.max_duration_minutes)
            THEN response' = Verdict(u, t, s, e, FALSE, "duration",
                                     l.max_duration_minutes, {})
            ELSE IF daily_reservations_count(reservations, u, now)
                        >= l.max_reservations_per_day
            THEN response' = Verdict(u, t, s, e, FALSE, "daily limit",
                                     l.max_reservations_per_day, {})
            ELSE IF InCooldown(reservations, u, s, l.cooldown_minutes)
            THEN response' = Verdict(u, t, s, e, FALSE, "cooldown",
                                     l.cooldown_minutes, {})
            ELSE response' = Verdict(u, t, s, e, TRUE, "available", 0, {})
    /\ UNCHANGED <<targets, reservations, nextResId, policies, user_policies,
                   target_policies, now, req, gateway_vars,
                   session_vars, tunnel_vars>>

\* Stored policy attachments: A or C on the developer, B or C on device 1.
InitAdmission ==
    /\ targets = RegisteredFleet
    /\ reservations = {}
    /\ nextResId = 1
    /\ policies = AdmissionPolicies
    /\ user_policies \in SUBSET ({DeveloperUser} \X {1, 3})
    /\ target_policies \in SUBSET ({1} \X {2, 3})
    /\ now \in {0, DayMinutes}
    /\ response = NoResponse
    /\ req = NoRequests
    /\ EmptyGatewayStore
    /\ EmptySessionStore
    /\ EmptyTunnelStore

NextAdmission ==
    \/ \E w \in RequestWindows, t \in 1..NumTargets :
           CheckAvailability(DeveloperUser, t, w[1], w[2])
    \/ \E w \in AdmissionWindows, t \in 1..NumTargets :
           CreateReservation(DeveloperUser, t, w[1], w[2])
    \/ \E r \in reservations :
           UpdateReservation(r.user_id, r.id, NoTime, NoTime, "cancelled")
    \/ UpdateTarget(AdminUser, NumTargets, "maintenance")

SpecAdmission == InitAdmission /\ [][NextAdmission]_vars

\* The last reply is a verdict that got past the status and conflict steps.
PolicyVerdict ==
    /\ response.op = "availability"
    /\ response.reason \in {"duration", "daily limit", "cooldown", "available"}

\* The policies attached to the verdict's user or to its device.
Attached ==
    {p \in policies :
        \/ <<response.user_id, p.id>> \in user_policies
        \/ <<response.target_id, p.id>> \in target_policies}

HighestAttached ==
    {p \in Attached : \A q \in Attached : p.priority_level >= q.priority_level}

\* The user's non-cancelled reservations starting in the current UTC day.
StartedToday ==
    {r \in reservations :
        /\ r.user_id = response.user_id
        /\ r.status # "cancelled"
        /\ r.start_time \div DayMinutes = now \div DayMinutes}

\* The user's latest finished reservation ended less than c minutes before
\* the requested start.
TooSoon(c) ==
    \E r \in reservations :
        /\ r.user_id = response.user_id
        /\ r.status # "cancelled"
        /\ r.end_time <= response.start_time
        /\ \A q \in reservations :
              (q.user_id = response.user_id /\ q.status # "cancelled"
                  /\ q.end_time <= response.start_time)
                  => q.end_time <= r.end_time
        /\ response.start_time < r.end_time + c

\* The verdict is the one the three limits d, n, c give, and quotes the one
\* that refused.
DecidedBy(d, n, c) ==
    LET duration == response.end_time - response.start_time
        count    == Cardinality(StartedToday)
    IN  CASE response.reason = "duration" ->
                 duration > d /\ response.limit = d
          [] response.reason = "daily limit" ->
                 duration <= d /\ count >= n /\ response.limit = n
          [] response.reason = "cooldown" ->
                 duration <= d /\ count < n /\ TooSoon(c)
                     /\ response.limit = c
          [] OTHER ->
                 duration <= d /\ count < n /\ ~TooSoon(c)

ResolvedQuota ==
    IF Attached = {} THEN {3}
    ELSE {p.max_reservations_per_day : p \in HighestAttached}

ResolvedCap ==
    IF Attached = {} THEN {240}
    ELSE {p.max_duration_minutes : p \in HighestAttached}

ResolvedCooldown ==
    IF Attached = {} THEN {60}
    ELSE {p.cooldown_minutes : p \in HighestAttached}

----------------------------------------------------------------------------
(* Properties of the reservation lifecycle *)

Live == {"pending", "active"}
Intersects(r, s, e) == r.start_time < e /\ s < r.end_time
ActiveOn(t) == {r \in reservations : r.target_id = t /\ r.status = "active"}

C4_ReservedHasOneActive ==
    \A t \in DOMAIN targets :
        targets[t].status = "reserved" => Cardinality(ActiveOn(t)) <= 1

\* The edges of the reservation state machine.
AllowedTransitions ==
    {<<"pending", "active">>, <<"active", "completed">>,
     <<"active", "expired">>, <<"pending", "cancelled">>,
     <<"active", "cancelled">>}

\* C13: through create, update, delete and sweep a reservation's status
\* changes only along pending->active, active->completed, active->expired,
\* pending->cancelled and active->cancelled; a completed, cancelled or expired
\* reservation never changes status again.
C13_StatusTransitions ==
    [][\A r \in reservations : \A q \in reservations' :
          (q.id = r.id /\ q.status # r.status)
              => <<r.status, q.status>> \in AllowedTransitions]_vars

\* The availability check, asked in the current state, can answer accept.
Admits(u, t, s, e) ==
    /\ targets[t].status \in {"available", "reserved"}
    /\ AvailabilityOverlapQuery(reservations, t, s, e) = {}
    /\ \E l \in ResolvedLimits(u, t) :
          /\ ~ExceedsDuration(e - s, l.max_duration_minutes)
          /\ daily_reservations_count(reservations, u, now)
                 < l.max_reservations_per_day
          /\ ~InCooldown(reservations, u, s, l.cooldown_minutes)

\* C14: the non-override create inserts a reservation only when the
\* availability check for the same user, device and window in the same state
\* accepts; a request the check would refuse for device status, duration,
\* daily quota or cooldown is not inserted.
C14_CreateOnlyWhenAdmitted ==
    [][\A q \in reservations' :
          (q.id = nextResId /\ nextResId' = nextResId + 1
              /\ ~q.is_admin_override)
              => Admits(q.user_id, q.target_id, q.start_time, q.end_time)]_vars

----------------------------------------------------------------------------
(* The admin override next to the ordinary create *)

OverrideReasons == {"urgent", "outage"}

NextOverride ==
    \/ \E w \in Windows, t \in 1..NumTargets :
           CreateReservation(DeveloperUser, t, w[1], w[2])
    \/ \E w \in Windows, t \in 1..NumTargets, reason \in OverrideReasons :
           CreateOverrideReservation(AdminUser, t, w[1], w[2], reason)
    \/ \E t \in 1..NumTargets, st \in {"maintenance", "offline"} :
           UpdateTarget(AdminUser, t, st)
    \/ Tick

SpecOverride == Init /\ [][NextOverride]_vars

\* C15: an admin-override create inserts the reservation without the overlap,
\* duration, quota or cooldown checks and whatever the device's status (in
\* every state each override request can be taken and changes the state), and
\* the stored row has priority critical, is_admin_override true and the
\* reason the admin supplied.
C15_OverrideAlwaysInserts ==
    /\ [](\A w \in Windows, t \in 1..NumTargets, reason \in OverrideReasons :
             nextResId <= MaxReservations =>
                 ENABLED <<CreateOverrideReservation(AdminUser, t, w[1], w[2],
                                                     reason)>>_vars)
    /\ [][\A w \in Windows, t \in 1..NumTargets, reason \in OverrideReasons :
             CreateOverrideReservation(AdminUser, t, w[1], w[2], reason) =>
                 \E q \in reservations' :
                     /\ q \notin reservations
                     /\ q.id = nextResId
                     /\ q.user_id = AdminUser
                     /\ q.target_id = t
                     /\ q.start_time = w[1]
                     /\ q.end_time = w[2]
                     /\ q.priority = "critical"
                     /\ q.is_admin_override
                     /\ q.override_reason = reason]_vars

\* An override row for an outage is stored on a device in maintenance, over
\* the window of another live reservation of that device.
C15_Witness ==
    \E q, r \in reservations :
        /\ q.is_admin_override
        /\ q.override_reason = "outage"
        /\ q.priority = "critical"
        /\ q.id > r.id
        /\ r.target_id = q.target_id
        /\ r.status \in {"pending", "active"}
        /\ r.start_time < q.end_time /\ q.start_time < r.end_time
        /\ targets[q.target_id].status = "maintenance"

\* The tables and sequences the handlers store; the clock, the last reply and
\* the requests in flight are not among them.
stored_state == <<targets, reservations, nextResId, policies, user_policies,
                  target_policies, gateways, associations, nextAssocId,
                  association_status>>

-----------------------------------------------------------------------------
(* gateways.py: the gateway hierarchy *)

\* The gateway ids the hierarchy is built from.
GatewayIds == Gateways \cup {"gw3"}

\* A GatewayUpdate body that does not carry parent_gateway_id.
Unset == "UNSET"

\* The row of table gateways, cut down to its key, its parent edge, the
\* device counter and the soft-delete flag (default True).
GatewayRow(g, parent, n) ==
    [gateway_id |-> g, parent_gateway_id |-> parent, current_targets |-> n,
     is_active |-> TRUE]

GatewayById(rows, g) == {x \in rows : x.gateway_id = g}

GatewayResponse(code) == [op |-> "gateway", status_code |-> code]

\* POST /gateways/
CreateGateway(u, g, parent) ==
    /\ check_admin_role(u)
    /\ IF GatewayById(gateways, g) # {}
       THEN /\ response' = GatewayResponse(400)
            /\ UNCHANGED gateways
       ELSE IF parent # NoString /\ GatewayById(gateways, parent) = {}
       THEN /\ response' = GatewayResponse(400)
            /\ UNCHANGED gateways
       ELSE /\ gateways' = gateways \cup {GatewayRow(g, parent, 0)}
            /\ response' = GatewayResponse(201)
    /\ UNCHANGED <<targets, reservations, nextResId, policies, user_policies,
                   target_policies, now, req, associations, nextAssocId,
                   association_status,
                   association_health, session_vars, tunnel_vars>>

\* PUT /gateways/{gateway_id}.  parent is Unset when the body leaves the field
\* out, NoString when it sends null.
UpdateGateway(u, g, parent) ==
    /\ check_admin_role(u)
    /\ IF GatewayById(gateways, g) = {}
       THEN /\ response' = GatewayResponse(404)
            /\ UNCHANGED gateways
       ELSE LET gateway == CHOOSE x \in GatewayById(gateways, g) : TRUE
                checked == /\ parent \notin {Unset, NoString}
                           /\ parent # gateway.parent_gateway_id
            IN IF checked /\ parent = gateway.gateway_id
               THEN /\ response' = GatewayResponse(400)
                    /\ UNCHANGED gateways
               ELSE IF checked /\ GatewayById(gateways, parent) = {}
               THEN /\ response' = GatewayResponse(400)
                    /\ UNCHANGED gateways
               ELSE /\ gateways' =
                          IF parent = Unset THEN gateways
                          ELSE (gateways \ {gateway}) \cup
                               {[gateway EXCEPT !.parent_gateway_id = parent]}
                    /\ response' = GatewayResponse(200)
    /\ UNCHANGED <<targets, reservations, nextResId, policies, user_policies,
                   target_policies, now, req, associations, nextAssocId,
                   association_status,
                   association_health, session_vars, tunnel_vars>>

\* GatewayCreate, as an import lists it.
GatewayCreate == [gateway_id : GatewayIds, parent_gateway_id : GatewayIds \cup {NoString}]

\* ImportGatewaysRequest.gateways: a list of at most MaxBatch entries.
ImportLists == UNION {[1..n -> GatewayCreate] : n \in 1..MaxBatch}

\* The foreign key of parent_gateway_id on gateways.gateway_id, as the
\* database checks it when a row is committed.
ParentKeyHolds(rows, x) ==
    x.parent_gateway_id = NoString \/ GatewayById(rows, x.parent_gateway_id) # {}

\* One pass of the import loop over entry i and the rest: every entry is
\* committed on its own, and a commit the database refuses ends the request
\* with the earlier entries kept.
RECURSIVE ImportFrom(_, _, _, _)
ImportFrom(rows, list, i, update_existing) ==
    IF i > Len(list) THEN [gateways |-> rows, status_code |-> 200]
    ELSE LET e        == list[i]
             existing == GatewayById(rows, e.gateway_id)
         IN IF existing # {}
            THEN IF update_existing
                 THEN LET old  == CHOOSE x \in existing : TRUE
                          new  == [old EXCEPT !.parent_gateway_id = e.parent_gateway_id]
                          next == (rows \ {old}) \cup {new}
                      IN IF ParentKeyHolds(next, new)
                         THEN ImportFrom(next, list, i + 1, update_existing)
                         ELSE [gateways |-> rows, status_code |-> 500]
                 ELSE ImportFrom(rows, list, i + 1, update_existing)
            ELSE LET new  == GatewayRow(e.gateway_id, e.parent_gateway_id, 0)
                     next == rows \cup {new}
                 IN IF ParentKeyHolds(next, new)
                    THEN ImportFrom(next, list, i + 1, update_existing)
                    ELSE [gateways |-> rows, status_code |-> 500]

\* POST /gateways/import
ImportGateways(u, list, update_existing) ==
    /\ check_admin_role(u)
    /\ LET out == ImportFrom(gateways, list, 1, update_existing) IN
          /\ gateways' = out.gateways
          /\ response' = GatewayResponse(out.status_code)
    /\ UNCHANGED <<targets, reservations, nextResId, policies, user_policies,
                   target_policies, now, req, associations, nextAssocId,
                   association_status,
                   association_health, session_vars, tunnel_vars>>

NextGateways ==
    \/ \E g \in GatewayIds, parent \in GatewayIds \cup {NoString} :
           CreateGateway(AdminUser, g, parent)
    \/ \E g \in GatewayIds, parent \in GatewayIds \cup {NoString, Unset} :
           UpdateGateway(AdminUser, g, parent)
    \/ \E list \in ImportLists, update_existing \in BOOLEAN :
           ImportGateways(AdminUser, list, update_existing)

SpecGateways == Init /\ [][NextGateways]_vars

\* The gateways reached from g by following n parent edges or fewer, g's own
\* parent first.
RECURSIVE Ancestors(_, _)
Ancestors(g, n) ==
    IF n = 0 THEN {}
    ELSE LET up == {x.parent_gateway_id : x \in GatewayById(gateways, g)} \ {NoString}
         IN up \cup UNION {Ancestors(a, n - 1) : a \in up}

\* C16: after any sequence of gateway create, update and import operations the
\* parent_gateway_id graph is acyclic: no gateway is reachable from itself by
\* following parent edges, cycles of length two or more included.
C16_ParentGraphAcyclic ==
    \A x \in gateways :
        x.gateway_id \notin Ancestors(x.gateway_id, Cardinality(gateways))

-----------------------------------------------------------------------------
(* gateways.py and target_gateway_associations.py: device associations.
   The handlers are modelled by their own logic; the association_status they
   keep on the device is taken as a stored column. *)

MaxAssociations == 2
MaxCount == 2

\* health_status and last_health_check of a row that was never checked.
NoScore == 0 - 1

AssociationRow(id, t, g, st) ==
    [id |-> id, target_id |-> t, gateway_id |-> g, status |-> st,
     health_status |-> NoScore, last_health_check |-> NoTime]

AssociationResponse(op, code) == [op |-> op, status_code |-> code]

SetAssociationStatus(a, t, st) ==
    [x \in DOMAIN a \cup {t} |-> IF x = t THEN st ELSE a[x]]

SetCurrentTargets(rows, g, n) ==
    {IF x.gateway_id = g THEN [x EXCEPT !.current_targets = n] ELSE x : x \in rows}

CurrentTargets(g) == (CHOOSE x \in GatewayById(gateways, g) : TRUE).current_targets

\* POST /gateways/{gateway_id}/associate-target
AssociateTarget(u, g, t, st) ==
    /\ check_developer_role(u)
    /\ IF GatewayById(gateways, g) = {} \/ t \notin DOMAIN targets
       THEN /\ response' = AssociationResponse("associate", 404)
            /\ UNCHANGED <<targets, gateways, association_status>>
       ELSE IF targets[t].gateway_id # NoString /\ targets[t].gateway_id # g
       THEN /\ response' = AssociationResponse("associate", 400)
            /\ UNCHANGED <<targets, gateways, association_status>>
       ELSE /\ CurrentTargets(g) < MaxCount
            /\ targets' = [targets EXCEPT ![t].gateway_id = g]
            /\ association_status' = SetAssociationStatus(association_status, t, st)
            /\ gateways' = SetCurrentTargets(gateways, g, CurrentTargets(g) + 1)
            /\ response' = AssociationResponse("associate", 200)
    /\ UNCHANGED <<reservations, nextResId, policies, user_policies,
                   target_policies, now, req, associations, nextAssocId,
                   association_health, session_vars, tunnel_vars>>

\* POST /gateways/{gateway_id}/disassociate-target
DisassociateTarget(u, g, t, force) ==
    /\ check_developer_role(u)
    /\ IF GatewayById(gateways, g) = {} \/ t \notin DOMAIN targets
       THEN /\ response' = AssociationResponse("disassociate", 404)
            /\ UNCHANGED <<targets, gateways, association_status>>
       ELSE IF targets[t].gateway_id # g
       THEN /\ response' = AssociationResponse("disassociate", 400)
            /\ UNCHANGED <<targets, gateways, association_status>>
       ELSE IF targets[t].status = "reserved" /\ ~force
       THEN /\ response' = AssociationResponse("disassociate", 400)
            /\ UNCHANGED <<targets, gateways, association_status>>
       ELSE /\ association_status' =
                  SetAssociationStatus(association_status, t, "disconnected")
            /\ targets' = IF targets[t].status = "available"
                          THEN SetTargetStatus(targets, t, "offline") ELSE targets
            /\ gateways' = IF CurrentTargets(g) > 0
                           THEN SetCurrentTargets(gateways, g, CurrentTargets(g) - 1)
                           ELSE gateways
            /\ response' = AssociationResponse("disassociate", 200)
    /\ UNCHANGED <<reservations, nextResId, policies, user_policies,
                   target_policies, now, req, associations, nextAssocId,
                   association_health, session_vars, tunnel_vars>>

\* BulkGatewayTargetDisassociation.target_ids: a list of at most MaxBatch ids.
TargetIdLists == UNION {[1..n -> 1..NumTargets] : n \in 1..MaxBatch}

Max(a, b) == IF a >= b THEN a ELSE b

\* POST /gateways/{gateway_id}/bulk-disassociate
BulkDisassociateTargets(u, g, target_ids, force) ==
    /\ check_developer_role(u)
    /\ IF GatewayById(gateways, g) = {}
       THEN /\ response' = AssociationResponse("bulk-disassociate", 404)
            /\ UNCHANGED <<targets, gateways, association_status>>
       ELSE LET found == {t \in DOMAIN targets :
                             /\ \E i \in 1..Len(target_ids) : target_ids[i] = t
                             /\ targets[t].gateway_id = g}
            IN IF Cardinality(found) # Len(target_ids)
               THEN /\ response' = AssociationResponse("bulk-disassociate", 400)
                    /\ UNCHANGED <<targets, gateways, association_status>>
               ELSE IF ~force /\ \E t \in found : targets[t].status = "reserved"
               THEN /\ response' = AssociationResponse("bulk-disassociate", 400)
                    /\ UNCHANGED <<targets, gateways, association_status>>
               ELSE /\ association_status' =
                          [x \in DOMAIN association_status \cup found |->
                              IF x \in found THEN "disconnected"
                              ELSE association_status[x]]
                    /\ targets' =
                          [t \in DOMAIN targets |->
                              IF t \in found /\ targets[t].status = "available"
                              THEN [targets[t] EXCEPT !.status = "offline"]
                              ELSE targets[t]]
                    /\ gateways' = SetCurrentTargets(gateways, g,
                          Max(0, CurrentTargets(g) - Cardinality(found)))
                    /\ response' = AssociationResponse("bulk-disassociate", 200)
    /\ UNCHANGED <<reservations, nextResId, policies, user_policies,
                   target_policies, now, req, associations, nextAssocId,
                   association_health, session_vars, tunnel_vars>>

\* POST /associations/
CreateAssociation(u, t, g, st) ==
    /\ u \in UserIds
    /\ IF t \notin DOMAIN targets \/ GatewayById(gateways, g) = {}
       THEN /\ response' = AssociationResponse("create_association", 404)
            /\ UNCHANGED <<targets, associations, nextAssocId, association_status>>
       ELSE IF \E a \in associations : a.target_id = t
       THEN /\ response' = AssociationResponse("create_association", 400)
            /\ UNCHANGED <<targets, associations, nextAssocId, association_status>>
       ELSE /\ nextAssocId <= MaxAssociations
            /\ associations' = associations \cup {AssociationRow(nextAssocId, t, g, st)}
            /\ nextAssocId' = nextAssocId + 1
            /\ targets' = [targets EXCEPT ![t].gateway_id = g]
            /\ association_status' =
                  SetAssociationStatus(association_status, t, "connected")
            /\ response' = AssociationResponse("create_association", 201)
    /\ UNCHANGED <<reservations, nextResId, policies, user_policies,
                   target_policies, now, req, gateways,
                   association_health, session_vars, tunnel_vars>>

\* PUT /associations/{association_id}, with a status in the body.
UpdateAssociation(u, id, st) ==
    /\ u \in UserIds
    /\ IF ~\E a \in associations : a.id = id
       THEN /\ response' = AssociationResponse("update_association", 404)
            /\ UNCHANGED <<associations, association_status>>
       ELSE LET a == CHOOSE x \in associations : x.id = id IN
            /\ associations' = (associations \ {a}) \cup {[a EXCEPT !.status = st]}
            /\ association_status' =
                  IF a.target_id \in DOMAIN targets
                  THEN SetAssociationStatus(association_status, a.target_id, st)
                  ELSE association_status
            /\ response' = AssociationResponse("update_association", 200)
    /\ UNCHANGED <<targets, reservations, nextResId, policies, user_policies,
                   target_policies, now, req, gateways, nextAssocId,
                   association_health, session_vars, tunnel_vars>>

\* DELETE /associations/{association_id}
DeleteAssociation(u, id) ==
    /\ u \in UserIds
    /\ IF ~\E a \in associations : a.id = id
       THEN /\ response' = AssociationResponse("delete_association", 404)
            /\ UNCHANGED <<associations, association_status>>
       ELSE LET a == CHOOSE x \in associations : x.id = id IN
            /\ associations' = associations \ {a}
            /\ association_status' =
                  IF a.target_id \in DOMAIN targets
                  THEN SetAssociationStatus(association_status, a.target_id,
                                            "disconnected")
                  ELSE association_status
            /\ response' = AssociationResponse("delete_association", 204)
    /\ UNCHANGED <<targets, reservations, nextResId, policies, user_policies,
                   target_policies, now, req, gateways, nextAssocId,
                   association_health, session_vars, tunnel_vars>>

\* Two gateways registered, the fleet registered on the first, no association
\* recorded yet.
InitAssociations ==
    /\ targets = RegisteredFleet
    /\ reservations = {}
    /\ nextResId = 1
    /\ policies = {}
    /\ user_policies = {}
    /\ target_policies = {}
    /\ now = 0
    /\ response = NoResponse
    /\ req = NoRequests
    /\ gateways = {GatewayRow(g, NoString, 0) : g \in Gateways}
    /\ associations = {}
    /\ nextAssocId = 1
    /\ association_status = <<>>
    /\ association_health = <<>>
    /\ EmptySessionStore
    /\ EmptyTunnelStore

NextAssociations ==
    \/ \E g \in Gateways, t \in 1..NumTargets :
           AssociateTarget(DeveloperUser, g, t, "connected")
    \/ \E g \in Gateways, t \in 1..NumTargets, force \in BOOLEAN :
           DisassociateTarget(DeveloperUser, g, t, force)
    \/ \E g \in Gateways, target_ids \in TargetIdLists, force \in BOOLEAN :
           BulkDisassociateTargets(DeveloperUser, g, target_ids, force)
    \/ \E g \in Gateways, t \in 1..NumTargets :
           CreateAssociation(DeveloperUser, t, g, "pending")
    \/ \E id \in 1..MaxAssociations, st \in {"connected", "disconnected"} :
           UpdateAssociation(DeveloperUser, id, st)
    \/ \E id \in 1..MaxAssociations : DeleteAssociation(DeveloperUser, id)
    \/ \E t \in 1..NumTargets : ReserveTarget(DeveloperUser, t)
    \/ \E t \in 1..NumTargets : ReleaseTarget(DeveloperUser, t)

SpecAssociations == InitAssociations /\ [][NextAssociations]_vars

\* What the association handlers store.
association_store == <<targets, gateways, associations, nextAssocId, association_status>>

LiveStatus(st) == st \notin {"disconnected", "failed"}

\* The live rows of the association table for device t.
LiveRows(t) == {a \in associations : a.target_id = t /\ LiveStatus(a.status)}

\* The gateways device t has a live association with: by a row of the table,
\* or by the association kept on the device itself.
LiveWith(t) ==
    {a.gateway_id : a \in LiveRows(t)} \cup
    (IF t \in DOMAIN association_status /\ LiveStatus(association_status[t])
     THEN {targets[t].gateway_id} ELSE {})

C18_ReservedNeedsForce ==
    [][/\ \A t \in DOMAIN targets : \A force \in BOOLEAN :
            (/\ DisassociateTarget(DeveloperUser, targets[t].gateway_id, t, force)
             /\ targets[t].status = "reserved") =>
                IF force
                THEN response'.status_code = 200 /\ targets'[t].status = "offline"
                ELSE response'.status_code = 400 /\ UNCHANGED association_store
       /\ \A g \in Gateways : \A target_ids \in TargetIdLists : \A force \in BOOLEAN :
            (/\ BulkDisassociateTargets(DeveloperUser, g, target_ids, force)
             /\ Cardinality({target_ids[i] : i \in 1..Len(target_ids)}) = Len(target_ids)
             /\ \A i \in 1..Len(target_ids) : targets[target_ids[i]].gateway_id = g
             /\ \E i \in 1..Len(target_ids) : targets[target_ids[i]].status = "reserved") =>
                IF force
                THEN /\ response'.status_code = 200
                     /\ \A i \in 1..Len(target_ids) :
                            targets[target_ids[i]].status = "reserved" =>
                                targets'[target_ids[i]].status = "offline"
                ELSE response'.status_code = 400 /\ UNCHANGED association_store]_vars

-----------------------------------------------------------------------------
(* Properties of the reservation lifecycle, continued *)

TerminalStatus == {"completed", "cancelled", "expired"}

\* C21: deleting a reservation is permitted only before it reaches a terminal
\* status: a reservation in completed, cancelled or expired status remains
\* stored whatever is requested, and deleting an active reservation releases
\* its device to available.
C21_TerminalNeverDeleted ==
    [][\A r \in reservations :
          /\ r.status \in TerminalStatus => \E q \in reservations' : q.id = r.id
          /\ (r.status = "active" /\ ~\E q \in reservations' : q.id = r.id) =>
                 targets'[r.target_id].status = "available"]_vars

-----------------------------------------------------------------------------
(* Properties of heartbeat reconciliation, continued *)

\* The record of device d after the batch is the record entry e refreshes it
\* to: the reported fields, the heartbeat stamp, and the status kept if it was
\* reserved or maintenance and available otherwise.
Refreshed(d, e) ==
    targets'[d] =
        TargetRow(e.name, e.gateway_id, e.serial_number,
                  IF targets[d].status \in {"reserved", "maintenance"}
                  THEN targets[d].status ELSE "available",
                  e.adb_status, e.serial_status, targets[d].is_active, now)

\* The record of device d after the batch is its old record taken offline.
TakenOffline(d) ==
    targets'[d] = [targets[d] EXCEPT !.status = "offline",
                                     !.adb_status = FALSE,
                                     !.serial_status = FALSE]

\* C22: when a heartbeat batch reports a device that matches an existing
\* record, the record's status is left unchanged if it is reserved or
\* maintenance and is set to available otherwise, and in both cases
\* last_heartbeat and the reported fields are refreshed.  Every record the
\* batch changes is either refreshed in this way by one of its entries or
\* taken offline as missing, and the entry of a one-entry batch that matches
\* a record refreshes one of the records it matches and creates none.
C22_MatchedDeviceRefreshed ==
    [][(response'.op = "heartbeat" /\ response'.status_code = 200) =>
          /\ \A d \in DOMAIN targets :
                \/ targets'[d] = targets[d]
                \/ TakenOffline(d)
                \/ \E i \in DOMAIN response'.devices :
                       Refreshed(d, response'.devices[i])
          /\ (/\ Len(response'.devices) = 1
              /\ MatchingDevices(targets, response'.devices[1]) # {}) =>
                /\ DOMAIN targets' = DOMAIN targets
                /\ \E d \in MatchingDevices(targets, response'.devices[1]) :
                       Refreshed(d, response'.devices[1])]_vars

\* A batch has just refreshed a reserved device, which is still reserved, and
\* made an offline device it reports available.
C22_Witness ==
    /\ response.op = "heartbeat"
    /\ response.status_code = 200
    /\ \E c \in response.status_changed_targets :
           /\ c.original_status = "offline"
           /\ c.new_status = "available"
           /\ targets[c.id].last_heartbeat = now
    /\ \E d \in DOMAIN targets :
           /\ targets[d].status = "reserved"
           /\ targets[d].last_heartbeat = now
           /\ targets[d].adb_status
           /\ targets[d].gateway_id = response.gateway_id
           /\ targets[d].name \in ReportedNames(response)

\* Record row carries the serial number of entry e, which has one.
SameSerial(row, e) ==
    e.serial_number # NoString /\ row.serial_number = e.serial_number

\* Record row carries the (gateway id, name) of entry e.
SameName(row, e) ==
    row.gateway_id = e.gateway_id /\ row.name = e.name

\* C23: each entry of a heartbeat batch is matched to an existing record by
\* serial number first, and by (gateway id, name) only when no record has
\* that serial number; an entry with no match creates exactly one new record
\* with status available; and an entry never updates a record that matches
\* neither its serial number nor its (gateway id, name), including when the
\* entry carries no serial number.
C23_MatchBySerialThenName ==
    [][(response'.op = "heartbeat" /\ response'.status_code = 200) =>
          /\ \A d \in DOMAIN targets :
                \/ targets'[d] = targets[d]
                \/ TakenOffline(d)
                \/ \E i \in DOMAIN response'.devices :
                       \/ SameSerial(targets[d], response'.devices[i])
                       \/ SameName(targets[d], response'.devices[i])
          /\ Len(response'.devices) = 1 =>
                LET e        == response'.devices[1]
                    bySerial == {d \in DOMAIN targets : SameSerial(targets[d], e)}
                    byName   == {d \in DOMAIN targets : SameName(targets[d], e)}
                    matched  == IF bySerial # {} THEN bySerial ELSE byName
                IN IF matched = {}
                   THEN /\ Len(targets') = Len(targets) + 1
                        /\ targets'[Len(targets')].status = "available"
                        /\ response'.new_targets = {Len(targets')}
                   ELSE /\ Len(targets') = Len(targets)
                        /\ \E d \in matched : Refreshed(d, e)]_vars

-----------------------------------------------------------------------------
(* Properties of the admission check, continued *)

\* The pending or active reservations on the verdict's device whose window
\* intersects the requested one.
Conflicting ==
    {r \in reservations :
        /\ r.target_id = response.target_id
        /\ r.status \in Live
        /\ Intersects(r, response.start_time, response.end_time)}

-----------------------------------------------------------------------------
(* Properties of the reservation lifecycle, continued *)

\* C25: a successful create, ordinary or admin-override, stores the
\* reservation as active and sets the device to reserved iff
\* start_time <= now < end_time at creation time; otherwise it stores the
\* reservation as pending and leaves the device's status unchanged.
C25_ActiveIffStartsNow ==
    [][\A q \in reservations' :
          (q.id = nextResId /\ nextResId' = nextResId + 1) =>
              IF q.start_time <= now /\ now < q.end_time
              THEN /\ q.status = "active"
                   /\ targets'[q.target_id].status = "reserved"
              ELSE /\ q.status = "pending"
                   /\ targets'[q.target_id].status = targets[q.target_id].status]_vars

\* An ordinary reservation stored pending for a window that ended when it was
\* created, its device still available, beside an override stored active on
\* a device now reserved.
C25_Witness ==
    \E q, r \in reservations :
        /\ ~q.is_admin_override
        /\ q.status = "pending"
        /\ q.end_time = now
        /\ targets[q.target_id].status = "available"
        /\ r.is_admin_override
        /\ r.status = "active"
        /\ r.start_time <= now /\ now < r.end_time
        /\ targets[r.target_id].status = "reserved"

\* C26: no reservation operation (create, admin-override create, status
\* update, delete, expiry sweep) changes the status of a device that is in
\* maintenance: a device in maintenance before the operation is in
\* maintenance after it.
C26_MaintenanceUntouched ==
    [][reservations' # reservations =>
          \A t \in DOMAIN targets :
              targets[t].status = "maintenance" =>
                  targets'[t].status = "maintenance"]_vars

-----------------------------------------------------------------------------
(* The reservation lifecycle without admin override: ordinary create, update
   and delete requests, one at a time *)

NextOrdinary ==
    \/ \E w \in Windows, t \in 1..NumTargets :
           CreateReservation(DeveloperUser, t, w[1], w[2])
    \/ \E r \in reservations : \E u \in Callers(r), q \in UpdateRequests :
           UpdateReservation(u, r.id, q[1], q[2], q[3])
    \/ \E r \in reservations : \E u \in Callers(r) : DeleteReservation(u, r.id)
    \/ Tick

SpecOrdinary == Init /\ [][NextOrdinary]_vars

\* Two different pending or active reservations of rows on one device with
\* intersecting windows.
DoubleBooked(rows) ==
    \E r, q \in rows :
        /\ r.id # q.id
        /\ r.target_id = q.target_id
        /\ r.status \in Live
        /\ q.status \in Live
        /\ Intersects(r, q.start_time, q.end_time)

\* C27: after any sequence of non-concurrent, non-override create, update and
\* delete operations, no two reservations in pending or active status on the
\* same device have intersecting windows; an update (of the time window or of
\* the status) that would produce such a pair is rejected and leaves the
\* reservation unchanged.
C27_NoDoubleBooking ==
    /\ [](~DoubleBooked(reservations))
    /\ [][\A r \in reservations :
            LET sent == {[r EXCEPT !.start_time = w[1], !.end_time = w[2],
                                   !.status = st] :
                            w \in Windows \cup {<<r.start_time, r.end_time>>},
                            st \in ReservationStatus}
            IN \A q \in sent :
                   (q \in reservations' /\ q # r) =>
                       ~DoubleBooked((reservations \ {r}) \cup {q})]_vars

-----------------------------------------------------------------------------
(* The admission check for an admin who also creates override reservations *)

\* Stored policy attachments: A or C on the admin, none on the devices.
InitAdminQuota ==
    /\ targets = RegisteredFleet
    /\ reservations = {}
    /\ nextResId = 1
    /\ policies = AdmissionPolicies
    /\ user_policies \in SUBSET ({AdminUser} \X {1, 3})
    /\ target_policies = {}
    /\ now \in {0, DayMinutes}
    /\ response = NoResponse
    /\ req = NoRequests
    /\ EmptyGatewayStore
    /\ EmptySessionStore
    /\ EmptyTunnelStore

NextAdminQuota ==
    \/ \E w \in AdmissionWindows, t \in 1..NumTargets :
           CreateOverrideReservation(AdminUser, t, w[1], w[2], "urgent")
    \/ \E w \in AdmissionWindows, t \in 1..NumTargets :
           CreateReservation(AdminUser, t, w[1], w[2])
    \/ \E w \in RequestWindows, t \in 1..NumTargets :
           CheckAvailability(AdminUser, t, w[1], w[2])

SpecAdminQuota == InitAdminQuota /\ [][NextAdminQuota]_vars

\* The verdict's user's non-cancelled, non-override reservations starting in
\* the current UTC day.
OrdinaryStartedToday == {r \in StartedToday : ~r.is_admin_override}

\* The user's latest finished non-override reservation ended less than c
\* minutes before the requested start.
OrdinaryTooSoon(c) ==
    LET ended == {r \in reservations :
                     /\ r.user_id = response.user_id
                     /\ r.status # "cancelled"
                     /\ ~r.is_admin_override
                     /\ r.end_time <= response.start_time}
    IN \E r \in ended :
           /\ \A q \in ended : q.end_time <= r.end_time
           /\ response.start_time < r.end_time + c

-----------------------------------------------------------------------------
(* The sweep when the loop body raises on one reservation                  *)

\* A policy row whose auto_expire_minutes column holds NULL.
NullMinutes == 0 - 2

\* PUT /policies/{policy_id} with the auto_expire_minutes field (admin): the
\* value sent is stored as it is, null included.
UpdatePolicy(u, id, minutes) ==
    /\ u = AdminUser
    /\ \E p \in policies : p.id = id
    /\ policies' = {IF p.id = id THEN [p EXCEPT !.auto_expire_minutes = minutes]
                    ELSE p : p \in policies}
    /\ response' = NoResponse
    /\ UNCHANGED <<targets, reservations, nextResId, user_policies,
                   target_policies, now, req, gateway_vars,
                   session_vars, tunnel_vars>>

\* The rows on which the loop body raises: timedelta(minutes=None) for an
\* active, non-override row with a last access whose policy has the lease
\* enabled and no lease length.
RaisingReservations(rows) ==
    {r \in rows :
        /\ r.status = "active"
        /\ r.target_id \in DOMAIN targets
        /\ ~r.is_admin_override
        /\ auto_expire_enabled(r)
        /\ r.last_accessed_at # NoTime
        /\ auto_expire_minutes(r) = NullMinutes}

\* One run of expire_stale_reservations_task.  The loop has no exception
\* handler and the only commit follows the loop: when the body raises on a
\* row the task ends there and the session's pending writes are dropped.
ExpireStaleReservationsRun ==
    IF RaisingReservations(reservations) # {}
    THEN /\ response' = [op |-> "expire-stale", committed |-> FALSE]
         /\ UNCHANGED <<targets, reservations, nextResId, policies,
                        user_policies, target_policies, now, req, gateway_vars,
                        session_vars, tunnel_vars>>
    ELSE ExpireStaleReservationsTask

NextSweep ==
    \/ ExpireStaleReservationsRun
    \/ \E p \in policies : \E m \in {Step, NullMinutes} :
           UpdatePolicy(AdminUser, p.id, m)
    \/ \E r \in reservations : TouchReservation(r.id)
    \/ Tick

SpecSweep == InitLease /\ [][NextSweep]_vars

\* The rows of a run that are due and on which the loop body does not raise.
DueElsewhere ==
    StaleReservations(reservations \ RaisingReservations(reservations), now)

-----------------------------------------------------------------------------
(* A heartbeat batch with an entry that fails *)

\* Entry e processes without failure on the stored table, whichever matching
\* record the lookup returns.
Harmless(e) ==
    \A h \in ProcessEntry([targets |-> targets, new_targets |-> {},
                           status_changed_targets |-> {}, failed |-> FALSE], e) :
        ~h.failed

\* Record d of the table after the step carries what entry e reported.
Applied(d, e) ==
    /\ targets'[d].name = e.name
    /\ targets'[d].gateway_id = e.gateway_id
    /\ targets'[d].serial_number = e.serial_number
    /\ targets'[d].adb_status = e.adb_status
    /\ targets'[d].serial_status = e.serial_status
    /\ targets'[d].status \in {"available", "reserved", "maintenance"}
    /\ targets'[d].last_heartbeat = now

\* C30: when one entry of a heartbeat batch fails to process, the remaining
\* entries are still applied and the missing-device detection still runs: the
\* gateway's active devices absent from the batch are offline afterwards
\* unless reserved or in maintenance, and in a batch of two whose first entry
\* processes cleanly the table afterwards carries that entry's report.
C30_BadEntryIsolated ==
    [][(response'.op = "heartbeat" /\ response'.status_code = 500) =>
          /\ \A d \in AbsentDevices(targets', response') :
                 targets'[d].status \in {"offline", "reserved", "maintenance"}
          /\ (Len(response'.devices) = 2 /\ Harmless(response'.devices[1]))
                 => \E d \in DOMAIN targets' :
                        Applied(d, response'.devices[1])]_vars

-----------------------------------------------------------------------------
(* process_heartbeat concurrent with create_reservation                     *)
(*                                                                          *)
(* Each request has its own AsyncSession.  The heartbeat's lookup loads the *)
(* device row into its session; the flush before the commit writes the      *)
(* columns whose value the handler changed from the loaded one, whatever    *)
(* was committed to the row in between (no version column, no row lock      *)
(* taken by the select).                                                    *)

HeartbeatWorker == 3
ReservationWorker == 1

IdleHeartbeat == [pc |-> "idle"]

\* Two devices of gateway gw1, registered by hand or by an earlier heartbeat.
RaceFleet(st1, st2) ==
    <<TargetRow("a", "gw1", NoString, st1, TRUE, TRUE, TRUE, 0),
      TargetRow("b", "gw1", NoString, st2, TRUE, TRUE, TRUE, 0)>>

\* The UPDATE of one column: written when the session's value differs from
\* the value it loaded, otherwise left as committed.
Column(committed, loaded, value) == IF value # loaded THEN value ELSE committed

\* A one-entry POST /targets/heartbeat up to its lookup (lines 273-279): the
\* row returned by .first() is loaded into the session.
HeartbeatLookup(e) ==
    /\ req[HeartbeatWorker].pc = "idle"
    /\ MatchingDevices(targets, e) # {}
    /\ \E d \in MatchingDevices(targets, e) :
           req' = [req EXCEPT ![HeartbeatWorker] =
                      [pc |-> "looked_up", entry |-> e, found |-> d,
                       loaded |-> targets[d]]]
    /\ UNCHANGED <<targets, reservations, nextResId, policies, user_policies,
                   target_policies, now, response, gateway_vars,
                   session_vars, tunnel_vars>>

\* The rest of the handler (lines 281-348): the changes to the loaded row,
\* the second pass over the gateway's unreported devices, flush and commit.
HeartbeatCommit ==
    LET w      == req[HeartbeatWorker]
        e      == w.entry
        d      == w.found
        loaded == w.loaded
        st     == IF loaded.status \notin {"reserved", "maintenance"}
                  THEN "available" ELSE loaded.status
        row    == [targets[d] EXCEPT
                     !.name = Column(@, loaded.name, e.name),
                     !.gateway_id = Column(@, loaded.gateway_id, e.gateway_id),
                     !.serial_number =
                         Column(@, loaded.serial_number, e.serial_number),
                     !.adb_status = Column(@, loaded.adb_status, e.adb_status),
                     !.serial_status =
                         Column(@, loaded.serial_status, e.serial_status),
                     !.status = Column(@, loaded.status, st),
                     !.last_heartbeat = Column(@, loaded.last_heartbeat, now)]
        h      == [targets |-> [targets EXCEPT ![d] = row],
                   new_targets |-> {}, status_changed_targets |-> {},
                   failed |-> FALSE]
    IN /\ w.pc = "looked_up"
       /\ targets' = MarkMissingOffline(h, e.gateway_id, <<e>>).targets
       /\ req' = [req EXCEPT ![HeartbeatWorker] = IdleHeartbeat]
       /\ UNCHANGED <<reservations, nextResId, policies, user_policies,
                      target_policies, now, response, gateway_vars,
                      session_vars, tunnel_vars>>

InitHeartbeatRace ==
    /\ \E st1, st2 \in {"offline", "available"} : targets = RaceFleet(st1, st2)
    /\ reservations = {}
    /\ nextResId = 1
    /\ policies = {}
    /\ user_policies = {}
    /\ target_policies = {}
    /\ now = 0
    /\ response = NoResponse
    /\ req = [p \in {ReservationWorker, HeartbeatWorker} |->
                 IF p = HeartbeatWorker THEN IdleHeartbeat ELSE IdleRequest]
    /\ EmptyGatewayStore
    /\ EmptySessionStore
    /\ EmptyTunnelStore

NextHeartbeatRace ==
    \/ \E w \in Windows, t \in DOMAIN targets :
           Submit(ReservationWorker, DeveloperUser, t, w[1], w[2])
    \/ ReadTarget(ReservationWorker)
    \/ CheckOverlap(ReservationWorker)
    \/ Commit(ReservationWorker)
    \/ \E e \in HeartbeatDeviceInfo("gw1") : HeartbeatLookup(e)
    \/ HeartbeatCommit
    \/ Tick

SpecHeartbeatRace == InitHeartbeatRace /\ [][NextHeartbeatRace]_vars

\* C31: when a heartbeat that reports a device runs concurrently with a
\* reservation operation that makes the device reserved, the heartbeat's
\* write never takes the device out of reserved while the reservation is
\* active: a device that is reserved under an active reservation when the
\* heartbeat commits is still reserved after the commit.
C31_HeartbeatKeepsReserved ==
    [][(req[HeartbeatWorker].pc = "looked_up" /\ req'[HeartbeatWorker].pc = "idle")
          => \A r \in reservations :
                 (r.status = "active" /\ targets[r.target_id].status = "reserved")
                 => targets'[r.target_id].status = "reserved"]_vars

-----------------------------------------------------------------------------
(* remote_access.py and ws.py: agents, sessions and proxy connections *)

\* Sessions the model lets the session manager hand out.
MaxSessions == 2

\* The device ids remote-access agents report: serial numbers.
RemoteDeviceIds == SerialNumbers \ {NoString}

HealthStatuses == {"connected", "disconnected", "unknown"}

\* select(TargetDevice).filter(serial_number == device_id): the serial is
\* unique, so .first() is the row or nothing.
TargetBySerial(id) == {d \in DOMAIN targets : targets[d].serial_number = id}

RemoteResponse(call, code) ==
    [op |-> "remote-access", call |-> call, status_code |-> code]

\* POST /remote-access/register
RegisterDevice(u, id) ==
    /\ check_developer_role(u)
    /\ registered_devices' = registered_devices \cup {id}
    /\ targets' = [d \in DOMAIN targets |->
                     IF d \in TargetBySerial(id)
                     THEN [targets[d] EXCEPT
                             !.last_heartbeat = now,
                             !.adb_status = TRUE,
                             !.status = IF @ = "offline" THEN "available" ELSE @]
                     ELSE targets[d]]
    /\ response' = RemoteResponse("register_device", 200)
    /\ UNCHANGED <<reservations, nextResId, policies, user_policies,
                   target_policies, now, req, gateway_vars, device_health,
                   active_sessions, nextSessionId, tunnel_vars>>

\* POST /remote-access/health
UpdateHealth(u, id, health_status) ==
    /\ check_developer_role(u)
    /\ device_health' = [x \in DOMAIN device_health \cup {id} |->
                           IF x = id THEN health_status ELSE device_health[x]]
    /\ targets' = [d \in DOMAIN targets |->
                     IF d \notin TargetBySerial(id) THEN targets[d]
                     ELSE IF health_status = "connected"
                     THEN [targets[d] EXCEPT
                             !.last_heartbeat = now,
                             !.status = IF @ = "offline" THEN "available" ELSE @,
                             !.adb_status = TRUE]
                     ELSE IF health_status = "disconnected"
                     THEN [targets[d] EXCEPT
                             !.last_heartbeat = now,
                             !.status = IF @ = "available" THEN "offline" ELSE @,
                             !.adb_status = FALSE]
                     ELSE [targets[d] EXCEPT !.last_heartbeat = now]]
    /\ response' = RemoteResponse("update_health", 200)
    /\ UNCHANGED <<reservations, nextResId, policies, user_policies,
                   target_policies, now, req, gateway_vars, registered_devices,
                   active_sessions, nextSessionId, tunnel_vars>>

SessionRow(sid, id, u) == [session_id |-> sid, device_id |-> id, user_id |-> u]

\* POST /remote-access/session/start.  reserved_by and reserved_at are not
\* columns of target_devices: the assignments stay on the loaded object and
\* the commit stores the status alone.
StartSession(u, id) ==
    /\ check_developer_role(u)
    /\ nextSessionId <= MaxSessions
    /\ IF id \notin registered_devices
       THEN /\ response' = RemoteResponse("start_session", 404)
            /\ UNCHANGED <<targets, active_sessions, nextSessionId>>
       ELSE IF id \notin DOMAIN device_health \/ device_health[id] # "connected"
       THEN /\ response' = RemoteResponse("start_session", 400)
            /\ UNCHANGED <<targets, active_sessions, nextSessionId>>
       ELSE IF \E d \in TargetBySerial(id) :
                   targets[d].status \notin {"available", "reserved"}
       THEN /\ response' = RemoteResponse("start_session", 400)
            /\ UNCHANGED <<targets, active_sessions, nextSessionId>>
       ELSE /\ active_sessions' =
                  active_sessions \cup {SessionRow(nextSessionId, id, u)}
            /\ nextSessionId' = nextSessionId + 1
            /\ targets' = [d \in DOMAIN targets |->
                             IF d \in TargetBySerial(id)
                             THEN [targets[d] EXCEPT !.status = "reserved"]
                             ELSE targets[d]]
            /\ response' = RemoteResponse("start_session", 200)
    /\ UNCHANGED <<reservations, nextResId, policies, user_policies,
                   target_policies, now, req, gateway_vars, registered_devices,
                   device_health, tunnel_vars>>

\* POST /remote-access/session/end/{session_id}.  The row is loaded afresh;
\* when its status is reserved the test reads target.reserved_by, which the
\* mapped class does not have: the AttributeError becomes a 500 after the
\* session manager has dropped the session.
EndSession(u, sid) ==
    /\ check_developer_role(u)
    /\ IF ~\E x \in active_sessions : x.session_id = sid
       THEN /\ response' = RemoteResponse("end_session", 404)
            /\ UNCHANGED active_sessions
       ELSE LET x == CHOOSE y \in active_sessions : y.session_id = sid IN
            IF u # x.user_id /\ role(u) # "admin"
            THEN /\ response' = RemoteResponse("end_session", 403)
                 /\ UNCHANGED active_sessions
            ELSE /\ active_sessions' = active_sessions \ {x}
                 /\ response' =
                        [op |-> "remote-access", call |-> "end_session",
                         status_code |->
                             IF \E d \in TargetBySerial(x.device_id) :
                                    targets[d].status = "reserved"
                             THEN 500 ELSE 200,
                         device_id |-> x.device_id, user_id |-> x.user_id,
                         caller |-> u]
    /\ UNCHANGED <<targets, reservations, nextResId, policies, user_policies,
                   target_policies, now, req, gateway_vars, registered_devices,
                   device_health, nextSessionId, tunnel_vars>>

\* /ws/adb/{target_id} and /ws/serial/{target_id}: get_target_if_available
\* reads the row; the proxy loop and the disconnect touch no table.
ConnectProxy(u, t) ==
    /\ response' = RemoteResponse("get_target_if_available",
                       IF t \notin DOMAIN targets THEN 404
                       ELSE IF targets[t].status = "offline" THEN 400 ELSE 200)
    /\ UNCHANGED <<targets, reservations, nextResId, policies, user_policies,
                   target_policies, now, req, gateway_vars, session_vars,
                   tunnel_vars>>

\* One device with an agent (serial SN1) and one without.
InitRemote ==
    /\ \E st \in {"offline", "available"} :
           targets = <<TargetRow("a", "gw1", "SN1", st, FALSE, FALSE, TRUE, NoTime),
                       TargetRow("b", "gw1", NoString, "available", TRUE, FALSE,
                                 TRUE, 0)>>
    /\ reservations = {}
    /\ nextResId = 1
    /\ policies = {}
    /\ user_policies = {}
    /\ target_policies = {}
    /\ now = 0
    /\ response = NoResponse
    /\ req = NoRequests
    /\ EmptyGatewayStore
    /\ EmptySessionStore
    /\ EmptyTunnelStore

NextRemote ==
    \/ \E id \in RemoteDeviceIds : RegisterDevice(DeveloperUser, id)
    \/ \E id \in RemoteDeviceIds, hs \in HealthStatuses :
           UpdateHealth(DeveloperUser, id, hs)
    \/ \E u \in {DeveloperUser, AdminUser}, id \in RemoteDeviceIds :
           StartSession(u, id)
    \/ \E u \in {DeveloperUser, AdminUser}, sid \in 1..MaxSessions :
           EndSession(u, sid)
    \/ \E t \in DOMAIN targets : ConnectProxy(DeveloperUser, t)
    \/ \E t \in DOMAIN targets : ReleaseTarget(DeveloperUser, t)
    \/ Tick

SpecRemote == InitRemote /\ [][NextRemote]_vars

\* C32: the remote-access and websocket session operations (device
\* register, health update, session start, session end, proxy connect)
\* never change a device's status.
C32_RemoteAccessReadsStatus ==
    [][response'.op = "remote-access" =>
          \A d \in DOMAIN targets : targets'[d].status = targets[d].status]_vars

\* C39: when the user who started a remote-access session ends it and no
\* other session remains on the device, a device that the session mechanism
\* had set to reserved is available afterwards.
C39_EndSessionReleases ==
    [][(/\ response'.op = "remote-access"
        /\ response'.call = "end_session"
        /\ active_sessions' # active_sessions
        /\ response'.caller = response'.user_id
        /\ ~\E x \in active_sessions' : x.device_id = response'.device_id)
          => \A d \in TargetBySerial(response'.device_id) :
                 targets[d].status = "reserved"
                 => targets'[d].status = "available"]_vars

-----------------------------------------------------------------------------
(* gateways.py: the hierarchy query *)

\* POST /gateways/{gateway_id}/deactivate (admin): the soft delete.
DeactivateGateway(u, g) ==
    /\ check_admin_role(u)
    /\ IF GatewayById(gateways, g) = {}
       THEN /\ response' = GatewayResponse(404)
            /\ UNCHANGED gateways
       ELSE /\ gateways' = {IF x.gateway_id = g
                            THEN [x EXCEPT !.is_active = FALSE] ELSE x :
                               x \in gateways}
            /\ response' = GatewayResponse(200)
    /\ UNCHANGED <<targets, reservations, nextResId, policies, user_policies,
                   target_policies, now, req, associations, nextAssocId,
                   association_status, association_health, session_vars, tunnel_vars>>

\* The node dictionary of the query: one node per active gateway.
HierarchyNodes(rows) == {x.gateway_id : x \in {y \in rows : y.is_active}}

\* The second loop: a gateway with a parent in the dictionary is appended to
\* that parent's children.
HierarchyChildren(rows) ==
    [g \in HierarchyNodes(rows) |->
        {x.gateway_id : x \in {y \in rows :
            /\ y.is_active
            /\ y.parent_gateway_id # NoString
            /\ y.parent_gateway_id \in HierarchyNodes(rows)
            /\ y.parent_gateway_id = g}}]

\* The second loop: a gateway without parent is appended to root_nodes.
HierarchyRoots(rows) ==
    {x.gateway_id : x \in {y \in rows :
        /\ y.is_active
        /\ ~(y.parent_gateway_id # NoString
             /\ y.parent_gateway_id \in HierarchyNodes(rows))
        /\ y.parent_gateway_id = NoString}}

\* GET /gateways/hierarchy: the reply is root_nodes, each node carrying its
\* children.
GetGatewayHierarchy(u) ==
    /\ u \in UserIds
    /\ response' = [op |-> "hierarchy", status_code |-> 200,
                    root_nodes |-> HierarchyRoots(gateways),
                    children |-> HierarchyChildren(gateways)]
    /\ UNCHANGED <<targets, reservations, nextResId, policies, user_policies,
                   target_policies, now, req, gateway_vars, session_vars,
                   tunnel_vars>>

NextHierarchy ==
    \/ \E g \in GatewayIds, parent \in GatewayIds \cup {NoString} :
           CreateGateway(AdminUser, g, parent)
    \/ \E g \in GatewayIds : DeactivateGateway(AdminUser, g)
    \/ GetGatewayHierarchy(DeveloperUser)

SpecHierarchy == Init /\ [][NextHierarchy]_vars

\* The nodes of the reply found n levels or fewer below the nodes in from.
RECURSIVE Below(_, _)
Below(from, n) ==
    IF n = 0 THEN from
    ELSE from \cup Below(UNION {response.children[g] : g \in from}, n - 1)

\* The gateway ids the reply carries, roots and descendants.
Returned == Below(response.root_nodes, Cardinality(gateways))

\* Gateway x has no parent, or its parent is missing or inactive.
Parentless(x) ==
    \/ x.parent_gateway_id = NoString
    \/ ~\E y \in gateways : y.gateway_id = x.parent_gateway_id /\ y.is_active

\* C33: the hierarchy query returns every active gateway exactly once: as a
\* root when it has no parent or its parent is missing or inactive, and
\* otherwise as a child of its parent's node.
C33_HierarchyReturnsEveryActive ==
    response.op = "hierarchy" =>
        \A x \in gateways :
            x.is_active =>
                /\ x.gateway_id \in Returned
                /\ IF Parentless(x)
                   THEN /\ x.gateway_id \in response.root_nodes
                        /\ \A g \in DOMAIN response.children :
                               x.gateway_id \notin response.children[g]
                   ELSE /\ x.gateway_id \notin response.root_nodes
                        /\ \A g \in DOMAIN response.children :
                               x.gateway_id \in response.children[g]
                               <=> g = x.parent_gateway_id

-----------------------------------------------------------------------------
(* target_gateway_associations.py: the health-evaluation pass *)

\* timedelta(minutes=5): the age after which an association is re-checked.
HealthCheckMinutes == 5

\* random.randint(0, 100), cut down to the values around the thresholds.
Scores == {29, 30, 59, 60}

\* The status an association gets from its new score.
StatusForScore(score) ==
    IF score < 30 THEN "failed"
    ELSE IF score < 60 THEN "disconnected"
    ELSE "connected"

\* A re-check that already fires when the last check is five minutes old.
HealthCheckDueAtFive(a) ==
    \/ a.last_health_check = NoTime
    \/ now - a.last_health_check >= HealthCheckMinutes

\* not assoc.last_health_check or now - last_health_check > 5 minutes
HealthCheckDue(a) ==
    \/ a.last_health_check = NoTime
    \/ now - a.last_health_check > HealthCheckMinutes

\* GET /associations/health-check.  score gives the random score drawn for
\* each association id; the device copy is the one of the row processed last.
CheckAssociationHealth(u, score) ==
    LET due  == {a \in associations :
                    /\ a.status \in {"connected", "connecting"}
                    /\ HealthCheckDue(a)}
        new(a) == [a EXCEPT !.status = StatusForScore(score[a.id]),
                            !.health_status = score[a.id],
                            !.last_health_check = now]
        held == {a.target_id : a \in due} \cap DOMAIN targets
    IN /\ u \in UserIds
       /\ associations' = (associations \ due) \cup {new(a) : a \in due}
       /\ \E last \in [held -> due] :
             /\ \A t \in held : last[t].target_id = t
             /\ association_status' =
                   [t \in DOMAIN association_status \cup held |->
                       IF t \in held THEN new(last[t]).status
                       ELSE association_status[t]]
             /\ association_health' =
                   [t \in DOMAIN association_health \cup held |->
                       IF t \in held THEN score[last[t].id]
                       ELSE association_health[t]]
       /\ response' = [op |-> "health-check", status_code |-> 200,
                       updated |-> {a.id : a \in due}]
       /\ UNCHANGED <<targets, reservations, nextResId, policies, user_policies,
                      target_policies, now, req, gateways, nextAssocId,
                      session_vars, tunnel_vars>>

\* Five minutes pass.
Pass ==
    /\ now < MaxTick * Step
    /\ now' = now + HealthCheckMinutes
    /\ UNCHANGED <<targets, reservations, nextResId, policies, user_policies,
                   target_policies, response, req, gateway_vars, session_vars,
                   tunnel_vars>>

NextHealth ==
    \/ \E t \in 1..NumTargets, st \in {"pending", "connecting"} :
           CreateAssociation(DeveloperUser, t, "gw1", st)
    \/ \E id \in 1..MaxAssociations :
           UpdateAssociation(DeveloperUser, id, "connected")
    \/ \E score \in [1..MaxAssociations -> Scores] :
           CheckAssociationHealth(DeveloperUser, score)
    \/ Pass

SpecHealth == InitAssociations /\ [][NextHealth]_vars

\* Association a is examined by a pass run now.
Examined(a) ==
    /\ a.status \in {"connected", "connecting"}
    /\ a.last_health_check = NoTime \/ now - a.last_health_check > 5

----------------------------------------------------------------------------
(* The operations that write a device's status beside the reservations    *)
(* that hold it: release, deactivation, stale-device removal, the admin's *)
(* update, and the status update of another reservation.                  *)

\* What POST /targets/remove-stale may send as hours_threshold (the schema
\* sets no lower limit; the default is 24).
StaleThresholds == {0, 24}

\* The rows the stale query selects: no heartbeat, or one older than the
\* threshold; only those of the gateway when one is named.
StaleTargets(tt, threshold, gateway_id) ==
    {t \in DOMAIN tt :
        /\ tt[t].last_heartbeat = NoTime \/ tt[t].last_heartbeat < threshold
        /\ gateway_id = NoString \/ tt[t].gateway_id = gateway_id}

\* POST /targets/remove-stale (admin).
RemoveStaleTargets(u, hours_threshold, gateway_id) ==
    /\ check_admin_role(u)
    /\ LET threshold == now - 60 * hours_threshold
           stale_targets == StaleTargets(targets, threshold, gateway_id)
       IN  targets' = [t \in DOMAIN targets |->
                          IF t \in stale_targets
                          THEN [targets[t] EXCEPT !.is_active = FALSE,
                                                  !.status = "offline"]
                          ELSE targets[t]]
    /\ response' = NoResponse
    /\ UNCHANGED <<reservations, nextResId, policies, user_policies,
                   target_policies, now, req, gateway_vars,
                   session_vars, tunnel_vars>>

NextDeviceOps ==
    \/ \E w \in Windows, t \in 1..NumTargets :
           CreateReservation(DeveloperUser, t, w[1], w[2])
    \/ \E r \in reservations : \E st \in {"completed", "cancelled"} :
           UpdateReservation(r.user_id, r.id, NoTime, NoTime, st)
    \/ \E t \in 1..NumTargets : ReleaseTarget(DeveloperUser, t)
    \/ \E t \in 1..NumTargets : DeactivateTarget(AdminUser, t)
    \/ \E t \in 1..NumTargets : UpdateTarget(AdminUser, t, "maintenance")
    \/ \E h \in StaleThresholds, g \in {NoString, "gw1"} :
           RemoveStaleTargets(AdminUser, h, g)
    \/ Tick

SpecDeviceOps == Init /\ [][NextDeviceOps]_vars

\* C35: in every reachable state, a device referenced by a reservation in
\* active status has status reserved: no release, stale-device removal,
\* device update or deactivation, or completion of another reservation on
\* the device leaves an active reservation on a device that is not reserved.
C35_ActiveMeansReserved ==
    \A r \in reservations :
        r.status = "active" => targets[r.target_id].status = "reserved"

----------------------------------------------------------------------------
(* Pending reservations under the fairly scheduled sweep (SpecLive) *)

\* Reservation id is stored as pending and its start time has been reached.
PendingStarted(id) ==
    \E r \in reservations :
        r.id = id /\ r.status = "pending" /\ r.start_time <= now

\* Reservation id is active and its device reserved.
Activated(id) ==
    \E r \in reservations :
        /\ r.id = id
        /\ r.status = "active"
        /\ targets[r.target_id].status = "reserved"

\* C36: a reservation stored as pending whose start time is later reached
\* eventually becomes active and its device reserved, with no status update
\* by a user or an admin; it does not stay pending for its whole window.
C36_PendingBecomesActive ==
    \A id \in 1..MaxReservations : PendingStarted(id) ~> Activated(id)

----------------------------------------------------------------------------
(* gateways.py: the current_targets counter under associate, bulk-associate,
   disassociate and bulk-disassociate (no gateway heartbeat in between). *)

\* POST /gateways/{gateway_id}/bulk-associate
BulkAssociateTargets(u, g, target_ids, st) ==
    /\ check_developer_role(u)
    /\ IF GatewayById(gateways, g) = {}
       THEN /\ response' = AssociationResponse("bulk-associate", 404)
            /\ UNCHANGED <<targets, gateways, association_status>>
       ELSE LET found == {t \in DOMAIN targets :
                             \E i \in 1..Len(target_ids) : target_ids[i] = t}
                already_associated ==
                    {t \in found : /\ targets[t].gateway_id # NoString
                                   /\ targets[t].gateway_id # g}
            IN IF Cardinality(found) # Len(target_ids)
               THEN /\ response' = AssociationResponse("bulk-associate", 400)
                    /\ UNCHANGED <<targets, gateways, association_status>>
               ELSE IF already_associated # {}
               THEN /\ response' = AssociationResponse("bulk-associate", 400)
                    /\ UNCHANGED <<targets, gateways, association_status>>
               ELSE /\ CurrentTargets(g) + Cardinality(found) <= MaxCount
                    /\ targets' =
                          [t \in DOMAIN targets |->
                              IF t \in found
                              THEN [targets[t] EXCEPT !.gateway_id = g]
                              ELSE targets[t]]
                    /\ association_status' =
                          [x \in DOMAIN association_status \cup found |->
                              IF x \in found THEN st ELSE association_status[x]]
                    /\ gateways' = SetCurrentTargets(gateways, g,
                          CurrentTargets(g) + Cardinality(found))
                    /\ response' = AssociationResponse("bulk-associate", 200)
    /\ UNCHANGED <<reservations, nextResId, policies, user_policies,
                   target_policies, now, req, associations, nextAssocId,
                   association_health, session_vars, tunnel_vars>>

\* A fleet registered by hand (POST /targets/ with no gateway_id): every
\* device offline, on no gateway, never heard from.
UnassignedFleet ==
    [t \in 1..NumTargets |->
        TargetRow(<<"dev", t>>, NoString, NoString, "offline", FALSE, FALSE, TRUE,
                  NoTime)]

\* Two gateways registered with no device on either, and the unassigned fleet.
InitCounters ==
    /\ targets = UnassignedFleet
    /\ reservations = {}
    /\ nextResId = 1
    /\ policies = {}
    /\ user_policies = {}
    /\ target_policies = {}
    /\ now = 0
    /\ response = NoResponse
    /\ req = NoRequests
    /\ gateways = {GatewayRow(g, NoString, 0) : g \in Gateways}
    /\ associations = {}
    /\ nextAssocId = 1
    /\ association_status = <<>>
    /\ association_health = <<>>
    /\ EmptySessionStore
    /\ EmptyTunnelStore

NextCounters ==
    \/ \E g \in Gateways, t \in 1..NumTargets :
           AssociateTarget(DeveloperUser, g, t, "connected")
    \/ \E g \in Gateways, target_ids \in TargetIdLists :
           BulkAssociateTargets(DeveloperUser, g, target_ids, "connected")
    \/ \E g \in Gateways, t \in 1..NumTargets, force \in BOOLEAN :
           DisassociateTarget(DeveloperUser, g, t, force)
    \/ \E g \in Gateways, target_ids \in TargetIdLists, force \in BOOLEAN :
           BulkDisassociateTargets(DeveloperUser, g, target_ids, force)

SpecCounters == InitCounters /\ [][NextCounters]_vars

\* The devices currently associated with gateway g: on g, and not
\* disassociated since.
AssociatedWith(g) ==
    {t \in DOMAIN targets :
        /\ targets[t].gateway_id = g
        /\ t \in DOMAIN association_status
        /\ association_status[t] # "disconnected"}

\* C37: after any sequence of associate, bulk-associate, disassociate and
\* bulk-disassociate operations on a gateway, the gateway's current_targets
\* counter equals the number of devices currently associated with it and is
\* never negative; repeating an associate or a disassociate for the same
\* device does not change the counter a second time.
C37_CounterMatchesAssociations ==
    \A x \in gateways :
        /\ x.current_targets >= 0
        /\ x.current_targets = Cardinality(AssociatedWith(x.gateway_id))

----------------------------------------------------------------------------
(* reserve_target under concurrent requests.  Each request runs in its own
   AsyncSession; the handler yields at its two awaits, the select of the
   device and the commit.  The status test between them runs on the row as
   it was loaded, and the UPDATE issued by the commit names the row by its
   id alone. *)

\* A POST /targets/{target_id}/reserve arrives at a worker.
SubmitReserve(p, u, t) ==
    /\ req[p].pc = "idle"
    /\ check_developer_role(u)
    /\ req' = [req EXCEPT ![p] = [IdleRequest EXCEPT !.pc = "reserve_started",
                                                     !.user_id = u,
                                                     !.target_id = t]]
    /\ UNCHANGED <<targets, reservations, nextResId, policies, user_policies,
                   target_policies, now, response, gateway_vars,
                   session_vars, tunnel_vars>>

\* await db.execute(select(TargetDevice)...), the 404 and the 400 (lines 396-409)
ReserveRead(p) ==
    /\ req[p].pc = "reserve_started"
    /\ req' = [req EXCEPT ![p].pc =
                  IF req[p].target_id \notin DOMAIN targets THEN "not_found"
                  ELSE IF targets[req[p].target_id].status # "available"
                  THEN "rejected" ELSE "reserve_checked"]
    /\ UNCHANGED <<targets, reservations, nextResId, policies, user_policies,
                   target_policies, now, response, gateway_vars,
                   session_vars, tunnel_vars>>

\* target.status = RESERVED; await db.commit(); return target (lines 411-440)
ReserveCommit(p) ==
    /\ req[p].pc = "reserve_checked"
    /\ targets' = SetTargetStatus(targets, req[p].target_id, "reserved")
    /\ req' = [req EXCEPT ![p].pc = "accepted"]
    /\ UNCHANGED <<reservations, nextResId, policies, user_policies,
                   target_policies, now, response, gateway_vars,
                   session_vars, tunnel_vars>>

NextReserveRace ==
    \/ \E p \in Workers, t \in 1..NumTargets : SubmitReserve(p, DeveloperUser, t)
    \/ \E p \in Workers : ReserveRead(p)
    \/ \E p \in Workers : ReserveCommit(p)
    \/ Tick

SpecReserveRace == InitRace /\ [][NextReserveRace]_vars

\* C38: when two concurrent immediate-reserve requests for the same available
\* device have both been answered, exactly one of them returned the device as
\* reserved and the other was rejected because the device is not available.
C38_ExactlyOneReserves ==
    \A p \in Workers, q \in Workers :
        (/\ p # q
         /\ Answered(p) /\ Answered(q)
         /\ req[p].target_id = req[q].target_id)
        => (req[p].pc = "accepted") # (req[q].pc = "accepted")

----------------------------------------------------------------------------
(* gateway/ssh_tunnel.py: SSHTunnelManager.  The manager runs on one event
   loop: a task runs until its next await, and any task that is ready may
   run next.  active_tunnels is the dict in insertion order, one entry per
   device; processes are the ssh child processes in the order they were
   started; monitors[p] is the position of the task that monitors process p.
   The stored token is taken to stay valid and the routing policy to allow
   the ports, so start_tunnel always goes on to start a process. *)

MaxProcesses == 5

TunnelDevices == {"d1", "d2"}

other_vars == <<targets, reservations, nextResId, policies, user_policies,
                target_policies, now, response, req, gateway_vars, session_vars>>

\* device_id in self.active_tunnels
HasTunnel(tunnels, d) == \E k \in 1..Len(tunnels) : tunnels[k].device_id = d

\* self.active_tunnels[device_id]["process"]
TunnelProcess(tunnels, d) ==
    tunnels[CHOOSE k \in 1..Len(tunnels) : tunnels[k].device_id = d].process

\* del self.active_tunnels[device_id]; a missing key raises KeyError, which
\* stop_tunnel catches.
DeleteTunnel(tunnels, d) ==
    LET Keep(e) == e.device_id # d IN SelectSeq(tunnels, Keep)

\* self.active_tunnels[device_id] = {...}: an existing key keeps its place in
\* the dict, a new one goes to the end.
StoreTunnel(tunnels, d, p) ==
    IF HasTunnel(tunnels, d)
    THEN [k \in 1..Len(tunnels) |->
             IF tunnels[k].device_id = d
             THEN [device_id |-> d, process |-> p] ELSE tunnels[k]]
    ELSE Append(tunnels, [device_id |-> d, process |-> p])

\* start_tunnel from its entry to its first await, as the tunnels and
\* processes after it and the await it stops at.  A device with an entry is
\* stopped first: a live process is killed and stop_tunnel awaits
\* process.wait(); for a process that has exited kill() raises
\* ProcessLookupError and the entry is deleted at once.  Then the task awaits
\* create_subprocess_exec.
StartTunnelBegin(tunnels, procs, d) ==
    IF HasTunnel(tunnels, d)
    THEN LET cur == TunnelProcess(tunnels, d)
         IN  IF procs[cur].alive
             THEN [tunnels |-> tunnels,
                   procs |-> [procs EXCEPT ![cur].alive = FALSE],
                   pc |-> "stopping"]
             ELSE [tunnels |-> DeleteTunnel(tunnels, d), procs |-> procs,
                   pc |-> "spawning"]
    ELSE [tunnels |-> tunnels, procs |-> procs, pc |-> "spawning"]

\* An ssh process exits on its own.
ProcessExit(p) ==
    /\ p \in DOMAIN processes
    /\ processes[p].alive
    /\ processes' = [processes EXCEPT ![p].alive = FALSE]
    /\ UNCHANGED <<active_tunnels, monitors, health_task, other_vars>>

\* _monitor_tunnel_process: process.wait() returns; the task goes to sleep for
\* retry_interval when its process is the one recorded for the device, and
\* ends otherwise (lines 708-727).
MonitorObserveExit(p) ==
    /\ p \in DOMAIN monitors
    /\ monitors[p] = "watching"
    /\ ~processes[p].alive
    /\ LET d == processes[p].device_id
       IN  monitors' = [monitors EXCEPT ![p] =
               IF HasTunnel(active_tunnels, d) /\ TunnelProcess(active_tunnels, d) = p
               THEN "sleeping" ELSE "done"]
    /\ UNCHANGED <<active_tunnels, processes, health_task, other_vars>>

\* _monitor_tunnel_process: the sleep is over; the task checks again and calls
\* start_tunnel (lines 729-744).  The recorded process is the monitor's own,
\* which has exited, so stop_tunnel deletes the entry without an await.
MonitorWake(p) ==
    /\ p \in DOMAIN monitors
    /\ monitors[p] = "sleeping"
    /\ LET d == processes[p].device_id
       IN  IF HasTunnel(active_tunnels, d) /\ TunnelProcess(active_tunnels, d) = p
           THEN LET begun == StartTunnelBegin(active_tunnels, processes, d)
                IN  /\ active_tunnels' = begun.tunnels
                    /\ processes' = begun.procs
                    /\ monitors' = [monitors EXCEPT ![p] = begun.pc]
           ELSE /\ monitors' = [monitors EXCEPT ![p] = "done"]
                /\ UNCHANGED <<active_tunnels, processes>>
    /\ UNCHANGED <<health_task, other_vars>>

\* start_tunnel called by a monitor: create_subprocess_exec returns; the new
\* process is recorded and gets its own monitor task (lines 617-646).
MonitorSpawned(p) ==
    /\ p \in DOMAIN monitors
    /\ monitors[p] = "spawning"
    /\ Len(processes) < MaxProcesses
    /\ LET d == processes[p].device_id
           new == Len(processes) + 1
       IN  /\ processes' = Append(processes, [device_id |-> d, alive |-> TRUE])
           /\ active_tunnels' = StoreTunnel(active_tunnels, d, new)
           /\ monitors' = Append([monitors EXCEPT ![p] = "done"], "watching")
    /\ UNCHANGED <<health_task, other_vars>>

\* What the probes of one pass find, per position of the snapshot.
Probes == [1..Cardinality(TunnelDevices) -> BOOLEAN]

\* _health_check_task from entry i of its snapshot to its next await, or to
\* the sleep that ends the pass (lines 462-510), as the tunnels, processes
\* and task after it.  A process that has exited is restarted; a live one is
\* probed (_check_tunnel_health has no await) and, when unhealthy, stopped
\* and restarted; a healthy entry leads to the next one with no await.
RECURSIVE HealthRun(_, _, _, _, _)
HealthRun(tunnels, procs, snapshot, i, healthy) ==
    IF i > Len(snapshot)
    THEN [tunnels |-> tunnels, procs |-> procs, task |-> IdleHealthTask]
    ELSE LET d == snapshot[i].device_id
             At(pc) == [pc |-> pc, snapshot |-> snapshot, i |-> i]
         IN  IF ~procs[snapshot[i].process].alive
             THEN LET begun == StartTunnelBegin(tunnels, procs, d)
                  IN  [tunnels |-> begun.tunnels, procs |-> begun.procs,
                       task |-> At(begun.pc)]
             ELSE IF healthy[i]
             THEN HealthRun(tunnels, procs, snapshot, i + 1, healthy)
             ELSE IF HasTunnel(tunnels, d) /\ procs[TunnelProcess(tunnels, d)].alive
             THEN \* stop_tunnel kills the recorded process and awaits its exit
                  [tunnels |-> tunnels,
                   procs |-> [procs EXCEPT ![TunnelProcess(tunnels, d)].alive = FALSE],
                   task |-> At("stopping_unhealthy")]
             ELSE \* stop_tunnel returns without an await; start_tunnel follows
                  LET begun == StartTunnelBegin(DeleteTunnel(tunnels, d), procs, d)
                  IN  [tunnels |-> begun.tunnels, procs |-> begun.procs,
                       task |-> At(begun.pc)]

\* _health_check_task: the sleep is over; the pass iterates over
\* list(self.active_tunnels.items()), a copy taken now, up to its first await.
HealthPass(healthy) ==
    /\ health_task.pc = "sleeping"
    /\ LET run == HealthRun(active_tunnels, processes, active_tunnels, 1, healthy)
       IN  /\ active_tunnels' = run.tunnels
           /\ processes' = run.procs
           /\ health_task' = run.task
    /\ UNCHANGED <<monitors, other_vars>>

\* stop_tunnel called by the health-check task: process.wait() returns and
\* the entry is deleted (lines 773-783); after the stop of an unhealthy
\* tunnel start_tunnel begins.
HealthStopped ==
    /\ health_task.pc \in {"stopping", "stopping_unhealthy"}
    /\ LET d == health_task.snapshot[health_task.i].device_id
           deleted == DeleteTunnel(active_tunnels, d)
       IN  IF health_task.pc = "stopping"
           THEN /\ active_tunnels' = deleted
                /\ health_task' = [health_task EXCEPT !.pc = "spawning"]
                /\ UNCHANGED processes
           ELSE LET begun == StartTunnelBegin(deleted, processes, d)
                IN  /\ active_tunnels' = begun.tunnels
                    /\ processes' = begun.procs
                    /\ health_task' = [health_task EXCEPT !.pc = begun.pc]
    /\ UNCHANGED <<monitors, other_vars>>

\* start_tunnel called by the health-check task: create_subprocess_exec
\* returns; the new process is recorded and gets its monitor task, and the
\* pass goes on with the next entry of its snapshot.
HealthSpawned(healthy) ==
    /\ health_task.pc = "spawning"
    /\ Len(processes) < MaxProcesses
    /\ LET d == health_task.snapshot[health_task.i].device_id
           new == Len(processes) + 1
           run == HealthRun(StoreTunnel(active_tunnels, d, new),
                            Append(processes, [device_id |-> d, alive |-> TRUE]),
                            health_task.snapshot, health_task.i + 1, healthy)
       IN  /\ processes' = run.procs
           /\ active_tunnels' = run.tunnels
           /\ health_task' = run.task
    /\ monitors' = Append(monitors, "watching")
    /\ UNCHANGED other_vars

\* The manager after start_tunnel has been called once for each of two
\* devices: two live processes, each recorded and monitored.
InitTunnels ==
    /\ targets = RegisteredFleet
    /\ reservations = {}
    /\ nextResId = 1
    /\ policies = {}
    /\ user_policies = {}
    /\ target_policies = {}
    /\ now = 0
    /\ response = NoResponse
    /\ req = NoRequests
    /\ EmptyGatewayStore
    /\ EmptySessionStore
    /\ processes = <<[device_id |-> "d1", alive |-> TRUE],
                     [device_id |-> "d2", alive |-> TRUE]>>
    /\ active_tunnels = <<[device_id |-> "d1", process |-> 1],
                          [device_id |-> "d2", process |-> 2]>>
    /\ monitors = <<"watching", "watching">>
    /\ health_task = IdleHealthTask

NextTunnels ==
    \/ \E p \in 1..MaxProcesses : ProcessExit(p)
    \/ \E p \in 1..MaxProcesses : MonitorObserveExit(p)
    \/ \E p \in 1..MaxProcesses : MonitorWake(p)
    \/ \E p \in 1..MaxProcesses : MonitorSpawned(p)
    \/ \E healthy \in Probes : HealthPass(healthy)
    \/ HealthStopped
    \/ \E healthy \in Probes : HealthSpawned(healthy)

SpecTunnels == InitTunnels /\ [][NextTunnels]_vars

\* The live processes of device d.
LiveProcesses(d) ==
    {p \in DOMAIN processes : processes[p].device_id = d /\ processes[p].alive}

\* C40: for each device the tunnel manager keeps at most one live tunnel
\* process, and no started process keeps running without being the one
\* recorded in active_tunnels for its device, in every interleaving of the
\* monitor tasks and the health-check task at their await points.
C40_OneLiveTunnelPerDevice ==
    \A d \in TunnelDevices :
        /\ Cardinality(LiveProcesses(d)) <= 1
        /\ \A p \in LiveProcesses(d) :
               HasTunnel(active_tunnels, d) /\ TunnelProcess(active_tunnels, d) = p

====
